---- MODULE Spec2Model ----
(***************************************************************************)
(* Model of infra-apix: the route registry (registry.go), the plugin hook  *)
(* engine (plugin.go) and the OpenAPI builder (openapi/builder.go).        *)
(* Go strings are byte sequences, so that strings.Compare and the          *)
(* byte-wise path scanner are computed, not assumed.                       *)
(***************************************************************************)
EXTENDS Integers, Sequences, FiniteSets, TLC

(***************************************************************************)
(* Bounds of the model.                                                    *)
(***************************************************************************)
MaxRefs == 3
MaxNodes == 6
MaxDepth == 5
NumProcs == 2

(***************************************************************************)
(* Strings that occur in the model, as byte sequences.                     *)
(***************************************************************************)
MethodGet == <<71, 69, 84>>
MethodPost == <<80, 79, 83, 84>>
MethodDelete == <<68, 69, 76, 69, 84, 69>>
MethodPut == <<80, 85, 84>>
MethodPatch == <<80, 65, 84, 67, 72>>
PathA == <<47, 97>>
PathB == <<47, 98>>
PlugA == <<97>>
PlugB == <<98>>

StatusOK == 200
StatusCreated == 201
StatusAccepted == 202
StatusNoContent == 204
StatusBadRequest == 400
StatusUnauthorized == 401
StatusForbidden == 403
StatusNotFound == 404
StatusInternalServerError == 500

\* strings.Compare: byte-wise lexicographic comparison, -1 / 0 / 1.
RECURSIVE StrCompare(_, _)
StrCompare(a, b) ==
  IF a = <<>> /\ b = <<>> THEN 0
  ELSE IF a = <<>> THEN -1
  ELSE IF b = <<>> THEN 1
  ELSE IF Head(a) < Head(b) THEN -1
  ELSE IF Head(a) > Head(b) THEN 1
  ELSE StrCompare(Tail(a), Tail(b))

(***************************************************************************)
(* registry.go                                                             *)
(***************************************************************************)
VARIABLES
  refs,      \* heap of *RouteRef values built by callers; index = pointer
  routes,    \* globalRegistry.routes: sequence of pointers into refs
  plugins,   \* pluginRegistry.plugins: name -> plugin
  regLog,    \* history: the RegisterRoute calls since the last ResetRegistry
  lastReg,   \* history: what the last RegisterRoute call did
  snap,      \* the result of the last Snapshot call, still held by its caller
  bld,       \* a Builder during a build: doc.Components.Schemas, schemaCache
  lastCall,  \* the last schemaRefFromType call on bld and what it returned
  doc,       \* what the last Build call returned
  pc,        \* concurrent callers: where each goroutine is in its call
  mu,        \* globalRegistry.mu: the writer holding it and the readers
  loc,       \* concurrent callers: the locals of each goroutine
  np,        \* the last normalizePath call: its argument and its result
  prev,      \* the document that a Build before the last one returned
  hnd        \* the runtime Handler, its configuration and the clock

regVars == <<refs, routes, plugins, regLog, lastReg, snap>>
bldVars == <<bld, lastCall, np, prev, hnd>>
concVars == <<pc, mu, loc>>

\* A RouteRef with the given method, path and success status and the zero
\* value in its other fields, but for the summary.
NewRouteRef(m, p, st) ==
  [Method |-> m, Path |-> p, OperationID |-> <<>>, Summary |-> "s1",
   Tags |-> <<>>, SuccessStatus |-> st, RequestType |-> "",
   ExplicitRequestModel |-> "", RequestContentType |-> "",
   BodyRequired |-> FALSE, Responses |-> <<>>, Security |-> <<>>,
   Parameters |-> <<>>]

\* A ResponseRef as RegisterResponse creates it.
NewResponseRef(modelType) ==
  [ModelType |-> modelType, ExplicitModelType |-> "", Description |-> "",
   ContentType |-> "application/json", Headers |-> <<>>]

\* A ResponseOption: WithDescriptionResponse, WithContentType,
\* WithExplicitModel (a nil model changes nothing), WithHeaders.
ApplyResponseOption(resp, opt) ==
  CASE opt.kind = "description" -> [resp EXCEPT !.Description = opt.v]
    [] opt.kind = "contentType" -> [resp EXCEPT !.ContentType = opt.v]
    [] opt.kind = "explicitModel" ->
         IF opt.v = "" THEN resp ELSE [resp EXCEPT !.ExplicitModelType = opt.v]
    [] opt.kind = "headers" -> [resp EXCEPT !.Headers = @ \o opt.v]

RECURSIVE ApplyResponseOptions(_, _)
ApplyResponseOptions(resp, opts) ==
  IF opts = <<>> THEN resp
  ELSE ApplyResponseOptions(ApplyResponseOption(resp, Head(opts)), Tail(opts))

\* RegisterResponse(r, status, modelType, opts...): the descriptor after the
\* call.  A nil model type is "".
RegisterResponse(r, status, modelType, opts) ==
  [r EXCEPT !.Responses =
     (status :> ApplyResponseOptions(NewResponseRef(modelType), opts)) @@ @]

EnsureResponse_Overwrite(r, status, modelType, opts) ==
  RegisterResponse(r, status, modelType, opts)

\* EnsureResponse(r, status, modelType, opts...)
EnsureResponse(r, status, modelType, opts) ==
  IF status \in DOMAIN r.Responses
  THEN [r EXCEPT !.Responses[status].ModelType =
                   IF modelType # "" /\ @ = "" THEN modelType ELSE @,
                 !.Responses[status].ContentType =
                   IF @ = "" THEN "application/json" ELSE @]
  ELSE RegisterResponse(r, status, modelType, opts)

\* WithSuccessStatus(status)(r)
WithSuccessStatus(r, status) ==
  IF status >= 100
  THEN EnsureResponse([r EXCEPT !.SuccessStatus = status], status, "", <<>>)
  ELSE r

\* WithErrorResponse(status, description)(r), with errors.go's ErrorResponse
\* as the model type.
WithErrorResponse(r, status, description) ==
  EnsureResponse(r, status, "ErrorResponse",
                 <<[kind |-> "description", v |-> description]>>)

DefaultSuccessStatus(method) ==
  IF method = MethodPost THEN StatusCreated
  ELSE IF method = MethodDelete THEN StatusNoContent
  ELSE StatusOK

\* RegisterRoute(ref), on the heap h and the slice rs; id is the pointer ref.
\* The result is the heap and the slice after the call, the plugins whose
\* OnRouteRegister the call invoked (it invokes none: executeOnRouteRegister
\* has no caller) and whether the call failed visibly (error or panic).
RegisterRouteCode(h, rs, id) ==
  LET h1 == IF h[id].SuccessStatus = 0
            THEN [h EXCEPT ![id].SuccessStatus = DefaultSuccessStatus(h[id].Method)]
            ELSE h
  IN [refs |-> h1, routes |-> Append(rs, id), invoked |-> <<>>, failed |-> FALSE]

\* strings.ToLower on ASCII
ToLower(str) ==
  [i \in 1..Len(str) |-> IF str[i] >= 65 /\ str[i] <= 90 THEN str[i] + 32 ELSE str[i]]

\* strings.Trim(str, "/")
RECURSIVE TrimSlashes(_)
TrimSlashes(str) ==
  IF str = <<>> THEN str
  ELSE IF Head(str) = 47 THEN TrimSlashes(Tail(str))
  ELSE IF str[Len(str)] = 47 THEN TrimSlashes(SubSeq(str, 1, Len(str) - 1))
  ELSE str

\* The three strings.ReplaceAll calls of defaultOperationID: "/" becomes
\* "_", "{" and "}" are removed.
RECURSIVE ReplaceSeparators(_)
ReplaceSeparators(str) ==
  IF str = <<>> THEN <<>>
  ELSE IF Head(str) = 47 THEN <<95>> \o ReplaceSeparators(Tail(str))
  ELSE IF Head(str) \in {123, 125} THEN ReplaceSeparators(Tail(str))
  ELSE <<Head(str)>> \o ReplaceSeparators(Tail(str))

\* "root"
RootName == <<114, 111, 111, 116>>

\* defaultOperationID(method, path), exported as DefaultOperationID
defaultOperationID(method, path) ==
  LET normalized == ReplaceSeparators(TrimSlashes(path))
  IN ToLower(method) \o <<95>> \o (IF normalized = <<>> THEN RootName ELSE normalized)

\* ResetRegistry: globalRegistry.routes = nil
ResetRegistryCode(rs) == <<>>

RouteLess_PathOnly(h, i, j) == StrCompare(h[i].Path, h[j].Path) < 0

\* The less function of Snapshot's sort.Slice.
RouteLess(h, i, j) ==
  IF h[i].Path = h[j].Path
  THEN StrCompare(h[i].Method, h[j].Method) < 0
  ELSE StrCompare(h[i].Path, h[j].Path) < 0

\* sort.Slice on at most 12 elements is an insertion sort: each element moves
\* left while it is less than its left neighbour.
RECURSIVE SinkRoute(_, _, _)
SinkRoute(h, s, j) ==
  IF j > 1 /\ RouteLess(h, s[j], s[j - 1])
  THEN SinkRoute(h, [s EXCEPT ![j] = s[j - 1], ![j - 1] = s[j]], j - 1)
  ELSE s

RECURSIVE SortRoutesFrom(_, _, _)
SortRoutesFrom(h, s, i) ==
  IF i > Len(s) THEN s ELSE SortRoutesFrom(h, SinkRoute(h, s, i), i + 1)

\* Snapshot: copy the slice of pointers, then sort the copy.
SnapshotCode(h, rs) == SortRoutesFrom(h, rs, 2)

(***************************************************************************)
(* plugin.go                                                               *)
(***************************************************************************)
PluginNames == {PlugA, PlugB}
\* What a plugin does in its callbacks: "tag" adds a tag / an extension,
\* "err" returns an error, "noop" is BasePlugin.
PluginKinds == {"tag", "err", "noop"}

NoPlugins == [n \in {} |-> "noop"]

\* RegisterPlugin: pluginRegistry.plugins[p.Name()] = p
RegisterPluginCode(ps, name, kind) ==
  [n \in DOMAIN ps \cup {name} |-> IF n = name THEN kind ELSE ps[n]]

\* ResetPlugins
ResetPluginsCode == NoPlugins

\* getPluginsSorted: the plugins of the map, sorted by name.  The map holds
\* one plugin per name, so the sorted order is unique.
RECURSIVE SortNames(_)
SortNames(S) ==
  IF S = {} THEN <<>>
  ELSE LET m == CHOOSE x \in S : \A y \in S : StrCompare(x, y) <= 0
       IN <<m>> \o SortNames(S \ {m})

RECURSIVE SortNames_Unordered(_)
SortNames_Unordered(S) ==
  IF S = {} THEN <<>>
  ELSE LET m == CHOOSE x \in S : \A y \in S : StrCompare(x, y) >= 0
       IN <<m>> \o SortNames_Unordered(S \ {m})

getPluginsSorted_MapOrder(ps) == SortNames_Unordered(DOMAIN ps)

getPluginsSorted(ps) == SortNames(DOMAIN ps)

\* The loop of executeOnRouteRegister / ExecuteOnSchemaGenerate /
\* ExecuteOnSpecBuild: the plugins are called in the order of getPluginsSorted
\* and the loop returns at the first error.  The result lists the calls made.
RECURSIVE RunPlugins(_, _, _)
RunPlugins(ps, order, i) ==
  IF i > Len(order) THEN [calls |-> <<>>, err |-> FALSE]
  ELSE LET call == [name |-> order[i], kind |-> ps[order[i]]]
       IN IF ps[order[i]] = "err"
          THEN [calls |-> <<call>>, err |-> TRUE]
          ELSE LET rest == RunPlugins(ps, order, i + 1)
               IN [calls |-> <<call>> \o rest.calls, err |-> rest.err]

ExecutePlugins(ps) == RunPlugins(ps, getPluginsSorted(ps), 1)

\* The names of the plugins of kind "tag" among the calls made, in call order.
RECURSIVE TagsOf(_)
TagsOf(calls) ==
  IF calls = <<>> THEN <<>>
  ELSE (IF Head(calls).kind = "tag" THEN <<Head(calls).name>> ELSE <<>>)
       \o TagsOf(Tail(calls))

(***************************************************************************)
(* openapi/builder.go: the Go types the builder is given.                  *)
(***************************************************************************)
\* A struct field: Go name, type, the comma-separated parts of its json tag,
\* of its validate tag and of its binding tag, its description and format
\* tags.
Fld(name, typ, json, validate, desc) ==
  [name |-> name, typ |-> typ, json |-> json, validate |-> validate,
   binding |-> <<>>, desc |-> desc, format |-> "", exported |-> TRUE,
   anonymous |-> FALSE]

Prim(k) == [kind |-> k, elem |-> "", key |-> "", pkg |-> <<>>, name |-> "", fields |-> <<>>]
Ptr(e) == [kind |-> "ptr", elem |-> e, key |-> "", pkg |-> <<>>, name |-> "", fields |-> <<>>]
Slice(e) == [kind |-> "slice", elem |-> e, key |-> "", pkg |-> <<>>, name |-> "", fields |-> <<>>]
Map(k, e) == [kind |-> "map", elem |-> e, key |-> k, pkg |-> <<>>, name |-> "", fields |-> <<>>]
Struct(pkg, name, fields) ==
  [kind |-> "struct", elem |-> "", key |-> "", pkg |-> pkg, name |-> name, fields |-> fields]

\* reflect.Type values, by identity.
\*   type User struct { ID string `json:"id"`; Email string `json:"email,omitempty"` }
\*   type Node struct { Next *Node `json:"next"`; Name string `json:"name"` }
\*   type Tree struct { Kids []Tree `json:"kids"`; Label string `json:"label"` }
\*   type Ping struct { Pong *Pong `json:"pong"` }
\*   type Pong struct { Pings []Ping `json:"pings"`; Seq int64 `json:"seq"` }
\*   struct { X string }
\*   type Event struct { At time.Time `json:"at"`; Meta struct{ X string } `json:"meta"`;
\*                       Owner User `json:"owner"` }
\*   type Bad struct { ID string `json:"id"`; Counts map[int]string `json:"counts"` }
\*   type Form struct { A string `json:"a"`; B string `json:"b,omitempty"`;
\*                      C string `json:"c,omitempty" validate:"required"`;
\*                      D *Opt `json:"d"` }
\*   type Opt struct { E []string `json:"e" binding:"required"`;
\*                     F map[string]string `json:"f"`; G []string `json:"g"`;
\*                     h string; J string `json:"-"` }
\*   type Loose struct { Note string `json:"omitempty_note"`;
\*                       Phone *string `json:"phone,omitempty"
\*                                      validate:"required_without=Email"` }
\*   type Order struct { Owner User `json:"owner" description:"the buyer"`;
\*                       Name string `json:"name" description:"a note"` }
\*   type Pair struct { A struct{ X string } `json:"a" description:"left"`;
\*                      B struct{ X string } `json:"b"` }
\*   type Gift struct { Owner *User `json:"owner" description:"the receiver"` }
\*   package "app/api/models": type User struct { Name string `json:"name"` }
TypeInfo(t) ==
  CASE t = "string" -> Prim("string")
    [] t = "UserV2" -> Struct(<<"app", "api", "models">>, "User",
          <<Fld("Name", "string", <<"name">>, <<>>, "")>>)
    [] t = "Order" -> Struct(<<"app", "models">>, "Order",
          <<Fld("Owner", "User", <<"owner">>, <<>>, "the buyer"),
            Fld("Name", "string", <<"name">>, <<>>, "a note")>>)
    [] t = "Pair" -> Struct(<<"app", "models">>, "Pair",
          <<Fld("A", "Anon", <<"a">>, <<>>, "left"),
            Fld("B", "Anon", <<"b">>, <<>>, "")>>)
    [] t = "Gift" -> Struct(<<"app", "models">>, "Gift",
          <<Fld("Owner", "*User", <<"owner">>, <<>>, "the receiver")>>)
    [] t = "int64" -> Prim("int64")
    [] t = "User" -> Struct(<<"app", "models">>, "User",
          <<Fld("ID", "string", <<"id">>, <<>>, ""),
            Fld("Email", "string", <<"email", "omitempty">>, <<>>, "")>>)
    [] t = "Node" -> Struct(<<"app", "models">>, "Node",
          <<Fld("Next", "*Node", <<"next">>, <<>>, ""),
            Fld("Name", "string", <<"name">>, <<>>, "")>>)
    [] t = "Tree" -> Struct(<<"app", "models">>, "Tree",
          <<Fld("Kids", "[]Tree", <<"kids">>, <<>>, ""),
            Fld("Label", "string", <<"label">>, <<>>, "")>>)
    [] t = "Ping" -> Struct(<<"app", "models">>, "Ping",
          <<Fld("Pong", "*Pong", <<"pong">>, <<>>, "")>>)
    [] t = "Pong" -> Struct(<<"app", "models">>, "Pong",
          <<Fld("Pings", "[]Ping", <<"pings">>, <<>>, ""),
            Fld("Seq", "int64", <<"seq">>, <<>>, "")>>)
    [] t = "Anon" -> Struct(<<>>, "", <<Fld("X", "string", <<>>, <<>>, "")>>)
    [] t = "*User" -> Ptr("User")
    [] t = "*Node" -> Ptr("Node")
    [] t = "*Pong" -> Ptr("Pong")
    [] t = "*Anon" -> Ptr("Anon")
    [] t = "[]Tree" -> Slice("Tree")
    [] t = "[]Ping" -> Slice("Ping")
    [] t = "[]User" -> Slice("User")
    [] t = "chan" -> Prim("chan")
    [] t = "Time" -> Struct(<<"time">>, "Time", <<>>)
    [] t = "Event" -> Struct(<<"app", "models">>, "Event",
          <<Fld("At", "Time", <<"at">>, <<>>, ""),
            Fld("Meta", "Anon", <<"meta">>, <<>>, ""),
            Fld("Owner", "User", <<"owner">>, <<>>, "")>>)
    [] t = "map[int]string" -> Map("int64", "string")
    [] t = "map[string]string" -> Map("string", "string")
    [] t = "*map[int]string" -> Ptr("map[int]string")
    [] t = "[]map[int]string" -> Slice("map[int]string")
    [] t = "map[string]map[int]string" -> Map("string", "map[int]string")
    [] t = "Bad" -> Struct(<<"app", "models">>, "Bad",
          <<Fld("ID", "string", <<"id">>, <<>>, ""),
            Fld("Counts", "map[int]string", <<"counts">>, <<>>, "")>>)

    [] t = "[]string" -> Slice("string")
    [] t = "*string" -> Ptr("string")
    [] t = "*Opt" -> Ptr("Opt")
    [] t = "Form" -> Struct(<<"app", "models">>, "Form",
          <<Fld("A", "string", <<"a">>, <<>>, ""),
            Fld("B", "string", <<"b", "omitempty">>, <<>>, ""),
            Fld("C", "string", <<"c", "omitempty">>, <<"required">>, ""),
            Fld("D", "*Opt", <<"d">>, <<>>, "")>>)
    [] t = "Opt" -> Struct(<<"app", "models">>, "Opt",
          <<[Fld("E", "[]string", <<"e">>, <<>>, "") EXCEPT !.binding = <<"required">>],
            Fld("F", "map[string]string", <<"f">>, <<>>, ""),
            Fld("G", "[]string", <<"g">>, <<>>, ""),
            [Fld("h", "string", <<>>, <<>>, "") EXCEPT !.exported = FALSE],
            Fld("J", "string", <<"-">>, <<>>, "")>>)
    [] t = "Loose" -> Struct(<<"app", "models">>, "Loose",
          <<Fld("Note", "string", <<"omitempty_note">>, <<>>, ""),
            Fld("Phone", "*string", <<"phone", "omitempty">>,
                <<"required_without=Email">>, "")>>)

NamedStructs == {"User", "Node", "Tree", "Ping", "Pong", "Event", "Bad", "Form", "Opt",
                 "Loose", "Order", "Pair", "Gift", "UserV2"}

\* componentName: "" for an unnamed type, else the last segment of the
\* package path, "_" and the type name; the pair stands for the joined string.
componentName(t) ==
  LET ti == TypeInfo(t)
  IN IF ti.name = "" THEN <<>>
     ELSE IF ti.pkg = <<>> THEN <<ti.name>>
     ELSE <<ti.pkg[Len(ti.pkg)], ti.name>>

\* jsonName: the serialized name of a field and whether the field is skipped.
jsonName(f) ==
  IF f.json = <<"-">> THEN [name |-> "", skip |-> TRUE]
  ELSE IF f.json = <<>> THEN [name |-> f.name, skip |-> FALSE]
  ELSE IF f.json[1] = "-" THEN [name |-> "", skip |-> TRUE]
  ELSE IF f.json[1] # "" THEN [name |-> f.json[1], skip |-> FALSE]
  ELSE [name |-> f.name, skip |-> FALSE]

\* The bytes of the words that occur in struct tags.
TagBytes(w) ==
  CASE w = "id" -> <<105, 100>>
    [] w = "email" -> <<101, 109, 97, 105, 108>>
    [] w = "omitempty" -> <<111, 109, 105, 116, 101, 109, 112, 116, 121>>
    [] w = "next" -> <<110, 101, 120, 116>>
    [] w = "name" -> <<110, 97, 109, 101>>
    [] w = "kids" -> <<107, 105, 100, 115>>
    [] w = "label" -> <<108, 97, 98, 101, 108>>
    [] w = "pong" -> <<112, 111, 110, 103>>
    [] w = "pings" -> <<112, 105, 110, 103, 115>>
    [] w = "seq" -> <<115, 101, 113>>
    [] w = "at" -> <<97, 116>>
    [] w = "meta" -> <<109, 101, 116, 97>>
    [] w = "owner" -> <<111, 119, 110, 101, 114>>
    [] w = "counts" -> <<99, 111, 117, 110, 116, 115>>
    [] w = "required" -> <<114, 101, 113, 117, 105, 114, 101, 100>>
    [] w = "a" -> <<97>>
    [] w = "b" -> <<98>>
    [] w = "c" -> <<99>>
    [] w = "d" -> <<100>>
    [] w = "e" -> <<101>>
    [] w = "f" -> <<102>>
    [] w = "g" -> <<103>>
    [] w = "omitempty_note" -> <<111, 109, 105, 116, 101, 109, 112, 116, 121, 95, 110, 111, 116, 101>>
    [] w = "phone" -> <<112, 104, 111, 110, 101>>
    [] w = "required_without=Email" -> <<114, 101, 113, 117, 105, 114, 101, 100, 95, 119, 105, 116, 104, 111, 117, 116, 61, 69, 109, 97, 105, 108>>
    [] w = "-" -> <<45>>
    [] w = "" -> <<>>

\* The value of a tag: its parts joined by commas.
RECURSIVE TagValue(_)
TagValue(tag) ==
  IF tag = <<>> THEN <<>>
  ELSE IF Len(tag) = 1 THEN TagBytes(tag[1])
  ELSE TagBytes(tag[1]) \o <<44>> \o TagValue(Tail(tag))

\* strings.Contains
Contains(str, substr) ==
  \E i \in 0..(Len(str) - Len(substr)) :
    \A k \in 1..Len(substr) : str[i + k] = substr[k]

\* strings.Contains(field.Tag.Get(..), w)
TagContains(tag, w) == Contains(TagValue(tag), TagBytes(w))

hasRequiredTag(f) ==
  TagContains(f.validate, "required") \/ TagContains(f.binding, "required")

isFieldRequired(f) ==
  IF TagContains(f.json, "omitempty") THEN hasRequiredTag(f)
  ELSE IF hasRequiredTag(f) THEN TRUE
  ELSE TypeInfo(f.typ).kind \notin {"ptr", "slice", "map", "iface"}

(***************************************************************************)
(* openapi/builder.go: schemas.  A node is an *openapi3.SchemaRef together  *)
(* with the *openapi3.Schema it points to (the builder never sets Ref and   *)
(* creates one Schema per SchemaRef); its index in nodes is the pointer.    *)
(* props is the index of the Properties map in maps (Go maps are shared by  *)
(* a struct copy); Required and AllOf are only ever appended to, so a copy  *)
(* of the slice header keeps the elements it had.                           *)
(***************************************************************************)
NewSchema(type, format) ==
  [type |-> type, format |-> format, nullable |-> FALSE, desc |-> "",
   props |-> 0, required |-> <<>>, allOf |-> <<>>, items |-> 0, addl |-> 0,
   ext |-> <<>>,
   goType |-> ""]

\* The Builder's doc.Components.Schemas and schemaCache, the schema heap and
\* the plugins and plugin calls of the build.
NewBuilderState(ps) ==
  [nodes |-> <<>>, maps |-> <<>>, cache |-> <<>>, comps |-> <<>>,
   log |-> <<>>, ps |-> ps]

Ok(b, ref) == [b |-> b, ref |-> ref, err |-> ""]
Fail(b, e) == [b |-> b, ref |-> 0, err |-> e]

\* schemaRef(s): a new SchemaRef with a new Schema.
AllocSchema(b, n) == Ok([b EXCEPT !.nodes = Append(@, n)], Len(b.nodes) + 1)

InCache_Never(b, t) == FALSE

\* b.schemaCache[t], ok
InCache(b, t) == t \in DOMAIN b.cache

wrapNullable_InPlace(b, ref) ==
  IF ref = 0 THEN Ok(b, 0)
  ELSE Ok([b EXCEPT !.nodes[ref].nullable = TRUE], ref)

\* wrapNullable: Ref is empty and Value is set, so the Schema is copied and
\* the copy is made nullable.
wrapNullable(b, ref) ==
  IF ref = 0 THEN Ok(b, 0)
  ELSE AllocSchema(b, [b.nodes[ref] EXCEPT !.nullable = TRUE])

\* What ExecuteOnSchemaGenerate leaves behind after the calls of run: the
\* schema with what the plugins added, the calls, the error of the last one.
SchemaGenerated(b, name, sid, run) ==
  [b |-> [b EXCEPT !.nodes[sid].ext = @ \o TagsOf(run.calls),
                   !.log = Append(@, [point |-> "schema", arg |-> name,
                                      schema |-> sid,
                                      props |-> DOMAIN b.maps[b.nodes[sid].props],
                                      calls |-> run.calls, err |-> run.err])],
   ref |-> IF run.err THEN 0 ELSE sid,
   err |-> IF run.err THEN "plugin error" ELSE ""]

ExecuteOnSchemaGenerate(b, name, sid) ==
  SchemaGenerated(b, name, sid, ExecutePlugins(b.ps))

RECURSIVE StripPointers(_)
StripPointers(t) ==
  IF TypeInfo(t).kind = "ptr" THEN StripPointers(TypeInfo(t).elem) ELSE t

KindOf(t) == TypeInfo(t).kind

HasStringKey_Any(t) == TRUE

\* t.Key().Kind() == reflect.String
HasStringKey(t) == TypeInfo(t).key = "string"

\* t.AssignableTo(timeType)
IsTime(t) == TypeInfo(t).pkg = <<"time">> /\ TypeInfo(t).name = "Time"

\* d is the call depth that is left: Go ends a recursion that does not end
\* by itself with a fatal stack overflow.
RECURSIVE schemaRefFromType(_, _, _)
RECURSIVE schemaRefNonNull(_, _, _)
RECURSIVE buildStructSchema(_, _, _)
RECURSIVE populateStructSchema(_, _, _, _, _)

\* schemaRefFromType after schemaRefNonNull returned r.
NullableOf(r, nullable) ==
  IF r.err # "" \/ r.ref = 0 THEN r
  ELSE IF ~nullable THEN r
  ELSE wrapNullable(r.b, r.ref)

schemaRefFromType(b, t, d) ==
  IF d = 0 THEN Fail(b, "stack overflow")
  ELSE NullableOf(schemaRefNonNull(b, StripPointers(t), d - 1), KindOf(t) = "ptr")

\* The array schema with the items r, the object schema with the additional
\* properties r.
ArrayOf(r) ==
  IF r.err # "" THEN Fail(r.b, r.err)
  ELSE AllocSchema(r.b, [NewSchema("array", "") EXCEPT !.items = r.ref])

MapOf(r) ==
  IF r.err # "" THEN Fail(r.b, r.err)
  ELSE AllocSchema(r.b, [NewSchema("object", "") EXCEPT !.addl = r.ref])

schemaRefNonNull(b, t, d) ==
  IF InCache(b, t) THEN Ok(b, b.cache[t])
  ELSE CASE KindOf(t) = "string" -> AllocSchema(b, NewSchema("string", ""))
         [] KindOf(t) = "int64" -> AllocSchema(b, NewSchema("integer", "int64"))
         [] KindOf(t) = "slice" -> ArrayOf(schemaRefFromType(b, TypeInfo(t).elem, d))
         [] KindOf(t) = "map" ->
              IF ~HasStringKey(t) THEN Fail(b, "unsupported map key type")
              ELSE MapOf(schemaRefFromType(b, TypeInfo(t).elem, d))
         [] KindOf(t) = "iface" -> AllocSchema(b, NewSchema("object", ""))
         [] KindOf(t) = "struct" ->
              IF IsTime(t) THEN AllocSchema(b, NewSchema("string", "date-time"))
              ELSE buildStructSchema(b, t, d)
         [] OTHER -> Fail(b, "unsupported type")

\* openapi3.NewObjectSchema() with a new Properties map, for type t.
NewObjectSchema(b, t) ==
  [b EXCEPT !.nodes = Append(@, [NewSchema("object", "") EXCEPT
                                   !.props = Len(b.maps) + 1, !.goType = t]),
            !.maps = Append(@, <<>>)]

\* b.doc.Components.Schemas[name] = schemaRef; b.schemaCache[t] = schemaRef
StoreComponent(b, name, t, sid) ==
  [b EXCEPT !.comps = (name :> sid) @@ @, !.cache = (t :> sid) @@ @]

\* buildStructSchema of a named struct after populateStructSchema returned p.
NamedStructBuilt(p, name, sid) ==
  IF p.err # "" THEN Fail(p.b, p.err)
  ELSE ExecuteOnSchemaGenerate(p.b, name, sid)

\* buildStructSchema of an unnamed struct after populateStructSchema
\* returned p.
InlineStructBuilt(p, t, sid) ==
  IF p.err # "" THEN Fail(p.b, p.err)
  ELSE Ok([p.b EXCEPT !.cache = (t :> sid) @@ @], sid)

\* populateStructSchema after ExecuteOnSchemaGenerate returned h.
PopulatedAfterHook(h, sid, t, d) ==
  IF h.err # "" THEN h ELSE populateStructSchema(h.b, sid, t, 1, d)

buildStructSchema_HookFirst(b, t, d) ==
  IF componentName(t) # <<>>
  THEN IF InCache(b, t) THEN Ok(b, b.cache[t])
       ELSE PopulatedAfterHook(
              ExecuteOnSchemaGenerate(
                StoreComponent(NewObjectSchema(b, t), componentName(t), t,
                               Len(b.nodes) + 1),
                componentName(t), Len(b.nodes) + 1),
              Len(b.nodes) + 1, t, d)
  ELSE InlineStructBuilt(
         populateStructSchema(NewObjectSchema(b, t), Len(b.nodes) + 1, t, 1, d),
         t, Len(b.nodes) + 1)

buildStructSchema(b, t, d) ==
  IF componentName(t) # <<>>
  THEN IF InCache(b, t) THEN Ok(b, b.cache[t])
       ELSE NamedStructBuilt(
              populateStructSchema(
                StoreComponent(NewObjectSchema(b, t), componentName(t), t,
                               Len(b.nodes) + 1),
                Len(b.nodes) + 1, t, 1, d),
              componentName(t), Len(b.nodes) + 1)
  ELSE InlineStructBuilt(
         populateStructSchema(NewObjectSchema(b, t), Len(b.nodes) + 1, t, 1, d),
         t, Len(b.nodes) + 1)

\* schema.AllOf = append(schema.AllOf, ref)
AddAllOf(r, sid) == [r.b EXCEPT !.nodes[sid].allOf = Append(@, r.ref)]

\* schema.Properties[name] = childRef; the description tag is written to the
\* child's schema; the name is appended to Required.
AddProperty(r, sid, f, name) ==
  [r.b EXCEPT !.maps[r.b.nodes[sid].props] = (name :> r.ref) @@ @,
              !.nodes[r.ref].desc = IF f.desc # "" THEN f.desc ELSE @,
              !.nodes[sid].required = IF isFieldRequired(f) THEN Append(@, name)
                                      ELSE @]

\* The child schema of field f.
FieldSchema(b, f, d) ==
  IF f.format \in {"binary", "file"}
  THEN AllocSchema(b, NewSchema("string", "binary"))
  ELSE schemaRefFromType(b, f.typ, d)

\* The loop of populateStructSchema after the schema r of embedded field i.
EmbeddedDone(r, sid, t, i, d) ==
  IF r.err # "" THEN Fail(r.b, r.err)
  ELSE populateStructSchema(AddAllOf(r, sid), sid, t, i + 1, d)

\* The loop of populateStructSchema after the schema r of field i.
FieldDone(r, sid, t, i, d, f) ==
  IF r.err # "" THEN Fail(r.b, r.err)
  ELSE populateStructSchema(AddProperty(r, sid, f, jsonName(f).name),
                            sid, t, i + 1, d)

\* One iteration of the loop of populateStructSchema, on field f = t.Field(i).
PopulateField(b, sid, t, i, d, f) ==
  IF ~f.exported /\ ~f.anonymous THEN populateStructSchema(b, sid, t, i + 1, d)
  ELSE IF f.anonymous
  THEN EmbeddedDone(schemaRefFromType(b, f.typ, d), sid, t, i, d)
  ELSE IF jsonName(f).skip THEN populateStructSchema(b, sid, t, i + 1, d)
  ELSE FieldDone(FieldSchema(b, f, d), sid, t, i, d, f)

\* The loop of populateStructSchema from field i on; sid is the schema.
populateStructSchema(b, sid, t, i, d) ==
  IF i > Len(TypeInfo(t).fields) THEN Ok(b, sid)
  ELSE PopulateField(b, sid, t, i, d, TypeInfo(t).fields[i])

(***************************************************************************)
(* openapi/builder.go: the document.                                       *)
(***************************************************************************)
IsParamNameByte_NoUnderscore(ch) ==
  \/ (ch >= 97 /\ ch <= 122)
  \/ (ch >= 65 /\ ch <= 90)
  \/ (ch >= 48 /\ ch <= 57)
  \/ ch = 45

\* The bytes normalizePath copies into a parameter name.
IsParamNameByte(ch) ==
  \/ (ch >= 97 /\ ch <= 122)
  \/ (ch >= 65 /\ ch <= 90)
  \/ (ch >= 48 /\ ch <= 57)
  \/ ch = 95
  \/ ch = 45

\* normalizePath: ':' opens a brace, the name bytes that follow are copied
\* and the brace is closed; every other byte is copied.
RECURSIVE NormalizeOutside(_, _)
RECURSIVE NormalizeName(_, _)
NormalizeOutside(path, i) ==
  IF i > Len(path) THEN <<>>
  ELSE IF path[i] = 58 THEN <<123>> \o NormalizeName(path, i + 1)
  ELSE <<path[i]>> \o NormalizeOutside(path, i + 1)

NormalizeName(path, i) ==
  IF i <= Len(path) /\ IsParamNameByte(path[i])
  THEN <<path[i]>> \o NormalizeName(path, i + 1)
  ELSE <<125>> \o NormalizeOutside(path, i)

normalizePath(path) == NormalizeOutside(path, 1)

\* strings.ToUpper on ASCII
ToUpper(str) ==
  [i \in 1..Len(str) |-> IF str[i] >= 97 /\ str[i] <= 122 THEN str[i] - 32 ELSE str[i]]

HttpMethods == {MethodGet, MethodPost, MethodPut, MethodPatch, MethodDelete}

defaultResponseDescription(status) ==
  CASE status = StatusOK -> "OK"
    [] status = StatusCreated -> "Created"
    [] status = StatusAccepted -> "Accepted"
    [] status = StatusNoContent -> "No Content"
    [] status = StatusBadRequest -> "Bad Request"
    [] status = StatusUnauthorized -> "Unauthorized"
    [] status = StatusForbidden -> "Forbidden"
    [] status = StatusNotFound -> "Not Found"
    [] status = StatusInternalServerError -> "Internal Server Error"
    [] OTHER -> ""

ParamLess_ByName(p, q) == StrCompare(p.Name, q.Name) < 0

\* The less function of the sort.SliceStable of addRoute.
ParamLess(p, q) ==
  IF p.In = q.In THEN StrCompare(p.Name, q.Name) < 0
  ELSE StrCompare(p.In, q.In) < 0

\* sort.SliceStable on at most 20 elements is an insertion sort.
RECURSIVE SinkParam(_, _)
SinkParam(s, j) ==
  IF j > 1 /\ ParamLess(s[j], s[j - 1])
  THEN SinkParam([s EXCEPT ![j] = s[j - 1], ![j - 1] = s[j]], j - 1)
  ELSE s

RECURSIVE SortParamsFrom(_, _)
SortParamsFrom(s, i) ==
  IF i > Len(s) THEN s ELSE SortParamsFrom(SinkParam(s, i), i + 1)

ParamsArray_Shared(id) == id

\* params := append([]apix.Parameter(nil), ref.Parameters...): the owner of
\* the array that addRoute sorts.  The array is new (0), not the one of the
\* descriptor id.
ParamsArray(id) == 0

\* sort.SliceStable(params, ...) of addRoute for the descriptor id, on the
\* heap h of descriptors: the heap after the sort.
SortParameters(h, id) ==
  IF Len(h[id].Parameters) > 0 /\ ParamsArray(id) # 0
  THEN [h EXCEPT ![ParamsArray(id)].Parameters = SortParamsFrom(@, 2)]
  ELSE h

\* The heap of descriptors after the loop of Build over the pointers ids,
\* from pointer i on, in a Build where no addRoute fails.
RECURSIVE HeapAfterRoutes(_, _, _)
HeapAfterRoutes(h, ids, i) ==
  IF i > Len(ids) THEN h
  ELSE HeapAfterRoutes(SortParameters(h, ids[i]), ids, i + 1)

\* The parameters of the operation: a sorted copy, the schema type "string"
\* where the parameter names none.
BuildParameters(params) ==
  LET sorted == SortParamsFrom(params, 2)
  IN [i \in 1..Len(sorted) |->
        [Name |-> sorted[i].Name, In |-> sorted[i].In,
         Required |-> sorted[i].Required,
         Type |-> IF sorted[i].SchemaType = "" THEN "string"
                  ELSE sorted[i].SchemaType]]

\* schemaFromTypes: the explicit type if there is one, else the inferred one;
\* ref 0 when there is neither.
schemaFromTypes(b, explicit, inferred) ==
  LET t == IF explicit # "" THEN explicit ELSE inferred
  IN IF t = "" THEN Ok(b, 0) ELSE schemaRefFromType(b, t, MaxDepth)

ModelTypeOf(explicit, inferred) == IF explicit # "" THEN explicit ELSE inferred

\* A nil request body, and the empty Content of a response.
NoBody == [ContentType |-> "", Schema |-> 0, goType |-> "", Required |-> FALSE]
NoContent == [ContentType |-> "", Schema |-> 0, goType |-> ""]

\* buildRequestBody after schemaFromTypes returned r: NoBody when the route
\* has no request type.
RequestBodyOf(r, ref) ==
  IF r.err # "" THEN [b |-> r.b, body |-> NoBody, err |-> r.err]
  ELSE IF r.ref = 0 THEN [b |-> r.b, body |-> NoBody, err |-> ""]
  ELSE [b |-> r.b, err |-> "",
        body |-> [ContentType |-> IF ref.RequestContentType = ""
                                  THEN "application/json"
                                  ELSE ref.RequestContentType,
                  Schema |-> r.ref,
                  goType |-> ModelTypeOf(ref.ExplicitRequestModel, ref.RequestType),
                  Required |-> IF ref.BodyRequired THEN TRUE
                               ELSE ref.RequestType # "" \/ ref.ExplicitRequestModel # ""]]

buildRequestBody(b, ref) ==
  RequestBodyOf(schemaFromTypes(b, ref.ExplicitRequestModel, ref.RequestType), ref)

HeaderOf(hdr) ==
  [Description |-> hdr.Description, Required |-> hdr.Required,
   Type |-> IF hdr.SchemaType = "" THEN "string" ELSE hdr.SchemaType,
   Format |-> ""]

\* resp.Headers[hdr.Name] = ... for the headers in order
RECURSIVE HeadersFrom(_, _)
HeadersFrom(hdrs, i) ==
  IF i = 0 THEN <<>>
  ELSE (hdrs[i].Name :> HeaderOf(hdrs[i])) @@ HeadersFrom(hdrs, i - 1)

\* buildResponse after schemaFromTypes returned r.
ResponseOf(r, status, rr) ==
  IF r.err # "" THEN [b |-> r.b, resp |-> NoContent, err |-> r.err]
  ELSE [b |-> r.b, err |-> "",
        resp |-> [Description |-> IF rr.Description = ""
                                  THEN defaultResponseDescription(status)
                                  ELSE rr.Description,
                  Content |-> IF r.ref = 0 THEN NoContent
                              ELSE [ContentType |-> IF rr.ContentType = ""
                                                    THEN "application/json"
                                                    ELSE rr.ContentType,
                                    Schema |-> r.ref,
                                    goType |-> ModelTypeOf(rr.ExplicitModelType,
                                                           rr.ModelType)],
                  Headers |-> HeadersFrom(rr.Headers, Len(rr.Headers))]]

buildResponse(b, status, rr) ==
  ResponseOf(schemaFromTypes(b, rr.ExplicitModelType, rr.ModelType), status, rr)

\* The statuses of S in ascending order (sort.Ints).
RECURSIVE SortInts(_)
SortInts(S) ==
  IF S = {} THEN <<>>
  ELSE LET m == CHOOSE x \in S : \A y \in S : x <= y
       IN <<m>> \o SortInts(S \ {m})

\* The loop over the sorted status codes of addRoute, from code i on.
RECURSIVE buildResponses(_, _, _, _, _)

\* The loop after buildResponse returned r for code i.
ResponseAdded(r, ref, codes, i, acc) ==
  IF r.err # "" THEN [b |-> r.b, responses |-> acc, err |-> r.err]
  ELSE buildResponses(r.b, ref, codes, i + 1, (codes[i] :> r.resp) @@ acc)

buildResponses(b, ref, codes, i, acc) ==
  IF i > Len(codes) THEN [b |-> b, responses |-> acc, err |-> ""]
  ELSE ResponseAdded(buildResponse(b, codes[i], ref.Responses[codes[i]]),
                     ref, codes, i, acc)

LocationHeader ==
  [Description |-> "URI of the newly created resource", Required |-> TRUE,
   Type |-> "string", Format |-> "uri"]

ensureResponse_Overwrite(responses, status, description) ==
  (status :> [Description |-> description, Content |-> NoContent, Headers |-> <<>>])
  @@ responses

\* ensureResponse
ensureResponse(responses, status, description) ==
  IF status \in DOMAIN responses THEN responses
  ELSE (status :> [Description |-> description, Content |-> NoContent,
                   Headers |-> <<>>])
       @@ responses

\* The Location header of addDXDefaults, on the responses of the operation.
AddLocation(ref, responses) ==
  IF ref.Method = MethodPost /\ StatusCreated \in DOMAIN responses
     /\ "Location" \notin DOMAIN responses[StatusCreated].Headers
  THEN [responses EXCEPT ![StatusCreated].Headers = ("Location" :> LocationHeader) @@ @]
  ELSE responses

\* The 401 and 403 responses of addDXDefaults.
AddAuthResponses(ref, responses) ==
  IF Len(ref.Security) > 0
  THEN ensureResponse(ensureResponse(responses, StatusUnauthorized, "Unauthorized"),
                      StatusForbidden, "Forbidden")
  ELSE responses

\* addDXDefaults, on the responses of the operation
addDXDefaults(ref, responses) == AddAuthResponses(ref, AddLocation(ref, responses))

\* doc.Paths with a path item at path.
PathItemAt(paths, path) ==
  IF path \in DOMAIN paths THEN paths ELSE (path :> <<>>) @@ paths

\* The operation of addRoute.
OperationOf(ref, body, responses) ==
  [OperationID |-> ref.OperationID, Summary |-> ref.Summary,
   Tags |-> ref.Tags,
   Parameters |-> BuildParameters(ref.Parameters),
   Security |-> ref.Security,
   RequestBody |-> body,
   Responses |-> addDXDefaults(ref, responses)]

\* The method switch of addRoute.
SetOperation(paths, b, ref, path, method, op) ==
  IF method \notin HttpMethods
  THEN [paths |-> paths, b |-> b, err |-> "unsupported method"]
  ELSE [paths |-> [paths EXCEPT ![path] = (method :> op) @@ @], b |-> b, err |-> ""]

\* addRoute after its loop over the responses returned resps.
ResponsesBuilt(paths, ref, body, resps) ==
  IF resps.err # "" THEN [paths |-> paths, b |-> resps.b, err |-> resps.err]
  ELSE SetOperation(paths, resps.b, ref, normalizePath(ref.Path),
                    ToUpper(ref.Method), OperationOf(ref, body, resps.responses))

\* addRoute after buildRequestBody returned body.
RequestBodyBuilt(paths, ref, body) ==
  IF body.err # "" THEN [paths |-> paths, b |-> body.b, err |-> body.err]
  ELSE ResponsesBuilt(paths, ref, body.body,
                      buildResponses(body.b, ref, SortInts(DOMAIN ref.Responses),
                                     1, <<>>))

\* addRoute on the document under construction: paths is doc.Paths, b the
\* schema state of the Builder.
addRoute(paths, b, ref) ==
  RequestBodyBuilt(PathItemAt(paths, normalizePath(ref.Path)), ref,
                   buildRequestBody(b, ref))

\* The loop over the routes of Build, from route i on.
RECURSIVE addRoutes(_, _, _, _)

\* The loop after addRoute returned r for route i.
RouteAdded(r, rs, i) ==
  IF r.err # "" THEN r ELSE addRoutes(r.paths, r.b, rs, i + 1)

addRoutes(paths, b, rs, i) ==
  IF i > Len(rs) THEN [paths |-> paths, b |-> b, err |-> ""]
  ELSE RouteAdded(addRoute(paths, b, rs[i]), rs, i)

\* ExecuteOnSpecBuild after the calls of run: the calls made, and the names
\* of the plugins that changed the document.
SpecBuilt(r, run) ==
  [event |-> [point |-> "spec", arg |-> <<>>, calls |-> run.calls, err |-> run.err,
              sorted |-> r.sorted,
              ops |-> UNION {{<<path, m>> : m \in DOMAIN r.paths[path]} :
                               path \in DOMAIN r.paths},
              comps |-> DOMAIN r.b.comps],
   ext |-> TagsOf(run.calls), err |-> run.err]

\* ExecuteOnSpecBuild(doc), r the document under construction
ExecuteOnSpecBuild(r, ps) == SpecBuilt(r, ExecutePlugins(ps))

\* The number of "}" in a path: the variables that Paths.InMatchingOrder
\* counts.
CountVars(path) == Cardinality({i \in 1..Len(path) : path[i] = 125})

\* The paths of S with the fewest variables first, those with as many
\* variables in descending order.
RECURSIVE MatchingOrder(_)
MatchingOrder(S) ==
  IF S = {} THEN <<>>
  ELSE LET m == CHOOSE x \in S : \A y \in S :
                  \/ CountVars(x) < CountVars(y)
                  \/ CountVars(x) = CountVars(y) /\ StrCompare(x, y) >= 0
       IN <<m>> \o MatchingOrder(S \ {m})

\* paths.InMatchingOrder(): the keys of the path table, in the order in
\* which the table yields them.
InMatchingOrder(paths) == MatchingOrder(DOMAIN paths)

\* The loop of sortPaths: sorted.Set(k, paths.Value(k)) for the keys left.
RECURSIVE SetPaths(_, _, _)
SetPaths(sorted, paths, keys) ==
  IF keys = <<>> THEN sorted
  ELSE SetPaths((Head(keys) :> paths[Head(keys)]) @@ sorted, paths, Tail(keys))

\* sortPaths: the path items are set, in matching order, in a new Paths,
\* which is a map of the path items by path.
sortPaths(paths) == SetPaths(<<>>, paths, InMatchingOrder(paths))

\* Build after sortPaths(doc.Paths).
PathsSorted(r) ==
  [paths |-> sortPaths(r.paths), b |-> r.b, err |-> r.err, sorted |-> TRUE]

\* A Build that returned nil and err.
BuildFailed(err, log, ps) ==
  [built |-> TRUE, err |-> err, nil |-> TRUE, paths |-> <<>>,
   comps |-> <<>>, nodes |-> <<>>, maps |-> <<>>, ext |-> <<>>,
   log |-> log, ps |-> ps]

\* Build after ExecuteOnSpecBuild returned h on the document of r.
HooksRun_Discard(r, h, ps) ==
  IF h.err THEN BuildFailed("plugin error", Append(r.b.log, h.event), ps)
  ELSE [built |-> TRUE, err |-> "", nil |-> FALSE, paths |-> r.paths,
        comps |-> r.b.comps, nodes |-> r.b.nodes, maps |-> r.b.maps,
        ext |-> <<>>, log |-> Append(r.b.log, h.event), ps |-> ps]

HooksRun(r, h, ps) ==
  IF h.err THEN BuildFailed("plugin error", Append(r.b.log, h.event), ps)
  ELSE [built |-> TRUE, err |-> "", nil |-> FALSE, paths |-> r.paths,
        comps |-> r.b.comps, nodes |-> r.b.nodes, maps |-> r.b.maps,
        ext |-> h.ext, log |-> Append(r.b.log, h.event), ps |-> ps]

\* Build from ExecuteOnSpecBuild on, on the document r with sorted paths.
SpecHooked(r, ps) == HooksRun(r, ExecuteOnSpecBuild(r, ps), ps)

RoutesAdded_Partial(r, ps) ==
  IF r.err # ""
  THEN [BuildFailed(r.err, r.b.log, ps) EXCEPT !.nil = FALSE, !.paths = r.paths]
  ELSE SpecHooked(PathsSorted(r), ps)

\* Build after the loop over the routes returned r.
RoutesAdded(r, ps) ==
  IF r.err # "" THEN BuildFailed(r.err, r.b.log, ps)
  ELSE SpecHooked(PathsSorted(r), ps)

\* Build(routes) with the plugins ps registered: the document returned (nil
\* with an error), and the plugin calls made during the build.
Build(rs, ps) == RoutesAdded(addRoutes(<<>>, NewBuilderState(ps), rs, 1), ps)

(***************************************************************************)
(* The registry API as actions.                                            *)
(***************************************************************************)
Procs == 1..NumProcs
\* sync.RWMutex: no writer, no readers
Unlocked == [writer |-> 0, readers |-> {}]
NoLocals == [ref |-> 0, out |-> <<>>]
NoCall == [typ |-> "", ref |-> 0, err |-> ""]
\* no Handler
NoHandler == [made |-> FALSE]
NoDoc == [built |-> FALSE, err |-> "", nil |-> TRUE, paths |-> <<>>,
          comps |-> <<>>, nodes |-> <<>>, maps |-> <<>>, ext |-> <<>>,
          log |-> <<>>, ps |-> <<>>]
\* no normalizePath call yet
NoPath == [called |-> FALSE, in |-> <<>>, out |-> <<>>, tmpl |-> <<>>]
NoSnap == [taken |-> FALSE, out |-> <<>>, vals |-> <<>>, log |-> <<>>]
NoReg == [called |-> FALSE, rejecting |-> FALSE, failed |-> FALSE,
          stored |-> FALSE, kept |-> TRUE]

Deref(h, s) == [i \in 1..Len(s) |-> h[s[i]]]

InitReg ==
  /\ refs = <<>>
  /\ routes = <<>>
  /\ plugins = NoPlugins
  /\ regLog = <<>>
  /\ lastReg = NoReg
  /\ snap = NoSnap
  /\ bld = NewBuilderState(NoPlugins)
  /\ lastCall = NoCall
  /\ doc = NoDoc
  /\ pc = [p \in Procs |-> "idle"]
  /\ mu = Unlocked
  /\ loc = [p \in Procs |-> NoLocals]
  /\ np = NoPath
  /\ prev = NoDoc
  /\ hnd = NoHandler

\* A caller builds a RouteRef and registers it (as the adapters do).
RegisterRoute(ref) ==
  /\ Len(refs) < MaxRefs
  /\ LET id == Len(refs) + 1
         r == RegisterRouteCode(Append(refs, ref), routes, id)
     IN /\ refs' = r.refs
        /\ routes' = r.routes
        /\ regLog' = Append(regLog, [ref |-> id, observers |-> plugins,
                                      invoked |-> r.invoked])
        /\ lastReg' = [called |-> TRUE,
                       rejecting |-> \E n \in DOMAIN plugins : plugins[n] = "err",
                       failed |-> r.failed,
                       stored |-> \E i \in 1..Len(r.routes) : r.routes[i] = id,
                       kept |-> r.routes = routes]
  /\ UNCHANGED <<plugins, snap>>
  /\ UNCHANGED <<bldVars, doc, concVars>>

ResetRegistry ==
  /\ routes' = ResetRegistryCode(routes)
  /\ regLog' = <<>>
  /\ UNCHANGED <<refs, plugins, lastReg, snap>>
  /\ UNCHANGED <<bldVars, doc, concVars>>

Snapshot ==
  /\ LET out == SnapshotCode(refs, routes)
     IN snap' = [taken |-> TRUE, out |-> out, vals |-> Deref(refs, out),
                 log |-> [i \in 1..Len(regLog) |-> regLog[i].ref]]
  /\ UNCHANGED <<refs, routes, plugins, regLog, lastReg>>
  /\ UNCHANGED <<bldVars, doc, concVars>>

\* A caller that kept its *RouteRef applies a RouteOption to it
\* (WithSummary) after the registration.
ApplyRouteOption(id) ==
  /\ id \in 1..Len(refs)
  /\ refs[id].Summary = "s1"
  /\ refs' = [refs EXCEPT ![id].Summary = "s2"]
  /\ UNCHANGED <<routes, plugins, regLog, lastReg, snap>>
  /\ UNCHANGED <<bldVars, doc, concVars>>

RegisterPlugin(name, kind) ==
  /\ plugins' = RegisterPluginCode(plugins, name, kind)
  /\ UNCHANGED <<refs, routes, regLog, lastReg, snap>>
  /\ UNCHANGED <<bldVars, doc, concVars>>

ResetPlugins ==
  /\ plugins' = ResetPluginsCode
  /\ UNCHANGED <<refs, routes, regLog, lastReg, snap>>
  /\ UNCHANGED <<bldVars, doc, concVars>>

RegMethods == {MethodGet, MethodPost}
RegPaths == {PathA, PathB}
HookPaths == {PathA, PathB}
HookKinds == {"tag", "err"}

vars == <<refs, routes, plugins, regLog, lastReg, snap, bld, lastCall, doc,
          pc, mu, loc, np, prev, hnd>>

\* Spec: the registry and its snapshots, without plugins.
Init == InitReg

Next ==
  \/ \E m \in RegMethods, p \in RegPaths : RegisterRoute(NewRouteRef(m, p, 0))
  \/ ResetRegistry
  \/ Snapshot
  \/ \E id \in 1..MaxRefs : ApplyRouteOption(id)

Spec == Init /\ [][Next]_vars

\* SpecHooks: route registration with registered plugins.
InitHooks == InitReg

NextHooks ==
  \/ \E p \in HookPaths : RegisterRoute(NewRouteRef(MethodGet, p, 0))
  \/ ResetRegistry
  \/ \E n \in PluginNames, k \in HookKinds : RegisterPlugin(n, k)
  \/ ResetPlugins

SpecHooks == InitHooks /\ [][NextHooks]_vars

(***************************************************************************)
(* SpecSchema: schemaRefFromType called on one Builder, for any types in   *)
(* any order, as the tests of the package do (newTestBuilder).             *)
(***************************************************************************)
SchemaTypes == {"string", "User", "*User", "Node", "*Node", "Tree", "[]Tree",
                "Ping", "*Pong", "Anon", "*Anon"}
SchemaPluginSets == {NoPlugins, RegisterPluginCode(NoPlugins, PlugA, "tag")}

InitSchema ==
  /\ refs = <<>>
  /\ routes = <<>>
  /\ plugins \in SchemaPluginSets
  /\ regLog = <<>>
  /\ lastReg = NoReg
  /\ snap = NoSnap
  /\ bld = NewBuilderState(plugins)
  /\ lastCall = NoCall
  /\ doc = NoDoc
  /\ pc = [p \in Procs |-> "idle"]
  /\ mu = Unlocked
  /\ loc = [p \in Procs |-> NoLocals]
  /\ np = NoPath
  /\ prev = NoDoc
  /\ hnd = NoHandler

SchemaRefFromType(t) ==
  /\ Len(bld.nodes) < MaxNodes
  /\ \E r \in {schemaRefFromType(bld, t, MaxDepth)} :
       /\ bld' = r.b
       /\ lastCall' = [typ |-> t, ref |-> r.ref, err |-> r.err]
  /\ UNCHANGED <<regVars, np, prev, hnd, doc, concVars>>

NextSchema == \E t \in SchemaTypes : SchemaRefFromType(t)

SpecSchema == InitSchema /\ [][NextSchema]_vars

(***************************************************************************)
(* SpecFields: schemaRefFromType on structs whose fields carry the tags    *)
(* that isFieldRequired reads.                                             *)
(***************************************************************************)
FieldTypes == {"Form", "Opt", "*Opt", "Loose", "User", "[]User", "string"}

InitFields == InitSchema

NextFields == \E t \in FieldTypes : SchemaRefFromType(t)

SpecFields == InitFields /\ [][NextFields]_vars

\* SpecStructs: schemaRefFromType on structs whose fields carry a
\* description tag, on the types of those fields, and on two struct types
\* named User of two packages named models.
StructTypes == {"Order", "Pair", "Gift", "User", "UserV2", "Anon", "string"}

InitStructs == InitSchema

NextStructs == \E t \in StructTypes : SchemaRefFromType(t)

SpecStructs == InitStructs /\ [][NextStructs]_vars

(***************************************************************************)
(* SpecBuild: plugins are registered, routes are registered, and Build is  *)
(* called on the Snapshot of the registry.                                 *)
(***************************************************************************)
InQuery == <<113, 117, 101, 114, 121>>
InPath == <<112, 97, 116, 104>>
ParamX == [Name |-> <<120>>, In |-> InPath, Required |-> TRUE, SchemaType |-> ""]
ParamY == [Name |-> <<121>>, In |-> InQuery, Required |-> FALSE, SchemaType |-> "integer"]

\* GET /a -> 200 User, with summary s
RouteGetUser(s) ==
  [NewRouteRef(MethodGet, PathA, 0) EXCEPT
     !.Summary = s, !.Responses = (StatusOK :> NewResponseRef("User"))]
\* POST /a, body User -> 201 User, parameters y (query) and x (path)
RoutePostUser ==
  [NewRouteRef(MethodPost, PathA, 0) EXCEPT
     !.RequestType = "User", !.Parameters = <<ParamY, ParamX>>,
     !.Responses = (StatusCreated :> NewResponseRef("User"))]
\* GET /b -> 200 Node
RouteGetNode ==
  [NewRouteRef(MethodGet, PathB, 0) EXCEPT
     !.Responses = (StatusOK :> NewResponseRef("Node"))]

\* GET /b -> 200 Event
RouteGetEvent ==
  [NewRouteRef(MethodGet, PathB, 0) EXCEPT
     !.Summary = "s2", !.Responses = (StatusOK :> NewResponseRef("Event"))]

BuildRoutes ==
  {RouteGetUser("s1"), RouteGetUser("s2"), RoutePostUser, RouteGetNode, RouteGetEvent}

\* b.Build(apix.Snapshot())
BuildSnapshot ==
  /\ \E out \in {SnapshotCode(refs, routes)} :
       /\ snap' = [taken |-> TRUE, out |-> out, vals |-> Deref(refs, out),
                   log |-> [i \in 1..Len(regLog) |-> regLog[i].ref]]
       /\ doc' = Build(Deref(refs, out), plugins)
  /\ UNCHANGED <<refs, routes, plugins, regLog, lastReg, bldVars, concVars>>

InitBuild == InitReg

NextBuild ==
  \/ \E n \in PluginNames, k \in HookKinds : refs = <<>> /\ RegisterPlugin(n, k)
  \/ \E r \in BuildRoutes : RegisterRoute(r)
  \/ BuildSnapshot

SpecBuild == InitBuild /\ [][NextBuild]_vars

(***************************************************************************)
(* SpecNorm: normalizePath called on any path.                             *)
(***************************************************************************)
MaxPathLen == 4
\* '/', ':', 'a', '{', '}'
PathAlphabet == {47, 58, 97, 123, 125}
PathInputs == UNION {[1..n -> PathAlphabet] : n \in 0..MaxPathLen}

NormalizePath(p) ==
  /\ np' = [np EXCEPT !.called = TRUE, !.in = p, !.out = normalizePath(p)]
  /\ UNCHANGED <<regVars, bld, lastCall, prev, hnd, doc, concVars>>

InitNorm == InitReg

NextNorm == \E p \in PathInputs : NormalizePath(p)

SpecNorm == InitNorm /\ [][NextNorm]_vars

(***************************************************************************)
(* SpecPath: one path is registered with its placeholders in the ':name'   *)
(* form under GET and in the '{name}' form under POST, and built.  A path   *)
(* is a sequence of tokens: a literal byte or a placeholder with its name.  *)
(***************************************************************************)
MaxTokens == 3
Lit(ch) == [kind |-> "lit", v |-> <<ch>>]
Param(name) == [kind |-> "param", v |-> name]
\* '/', 'a', '.', {id}, {x_1}
Tokens == {Lit(47), Lit(97), Lit(46), Param(<<105, 100>>), Param(<<120, 95, 49>>)}

\* In the ':name' form a name ends at the first byte that is no name byte:
\* a placeholder is followed by nothing, by a placeholder or by such a byte.
WellFormed(t) ==
  \A i \in 1..(Len(t) - 1) :
    (t[i].kind = "param" /\ t[i + 1].kind = "lit") => t[i + 1].v[1] \in {47, 46}

Templates ==
  {t \in UNION {[1..n -> Tokens] : n \in 0..MaxTokens} : WellFormed(t)}

RECURSIVE ColonForm(_)
ColonForm(t) ==
  IF t = <<>> THEN <<>>
  ELSE (IF Head(t).kind = "param" THEN <<58>> \o Head(t).v ELSE Head(t).v)
       \o ColonForm(Tail(t))

RECURSIVE BraceForm(_)
BraceForm(t) ==
  IF t = <<>> THEN <<>>
  ELSE (IF Head(t).kind = "param" THEN <<123>> \o Head(t).v \o <<125>> ELSE Head(t).v)
       \o BraceForm(Tail(t))

InitPath ==
  /\ refs = <<>>
  /\ routes = <<>>
  /\ plugins = NoPlugins
  /\ regLog = <<>>
  /\ lastReg = NoReg
  /\ snap = NoSnap
  /\ bld = NewBuilderState(NoPlugins)
  /\ lastCall = NoCall
  /\ doc = NoDoc
  /\ pc = [p \in Procs |-> "idle"]
  /\ mu = Unlocked
  /\ loc = [p \in Procs |-> NoLocals]
  /\ \E t \in Templates : np = [NoPath EXCEPT !.tmpl = t]
  /\ prev = NoDoc
  /\ hnd = NoHandler

NextPath ==
  \/ RegisterRoute(NewRouteRef(MethodGet, ColonForm(np.tmpl), 0))
  \/ RegisterRoute(NewRouteRef(MethodPost, BraceForm(np.tmpl), 0))
  \/ BuildSnapshot
  \/ \E p \in {ColonForm(np.tmpl), BraceForm(np.tmpl)} : NormalizePath(p)

SpecPath == InitPath /\ [][NextPath]_vars

(***************************************************************************)
(* SpecDX: Build on routes that addDXDefaults acts on: created resources   *)
(* and security requirements.                                              *)
(***************************************************************************)
MethodPostLower == <<112, 111, 115, 116>>
Bearer == [Name |-> "bearer", Scopes |-> <<>>]
OwnLocation ==
  [Name |-> "Location", Description |-> "own", SchemaType |-> "", Required |-> FALSE]
OwnHeader ==
  [Name |-> "X-Reason", Description |-> "why", SchemaType |-> "integer", Required |-> TRUE]

\* POST /a -> 201 User
RoutePostCreated ==
  [NewRouteRef(MethodPost, PathA, 0) EXCEPT
     !.Responses = (StatusCreated :> NewResponseRef("User"))]
\* POST /a -> 201 User with a declared Location header, with security
RoutePostLocation ==
  [NewRouteRef(MethodPost, PathA, 0) EXCEPT
     !.Security = <<Bearer>>,
     !.Responses = (StatusCreated :>
                      [NewResponseRef("User") EXCEPT !.Headers = <<OwnLocation>>])]
\* POST /b -> 200 User
RoutePostOK ==
  [NewRouteRef(MethodPost, PathB, StatusOK) EXCEPT
     !.Responses = (StatusOK :> NewResponseRef("User"))]
\* GET /b -> 201 User
RouteGetCreated ==
  [NewRouteRef(MethodGet, PathB, StatusCreated) EXCEPT
     !.Responses = (StatusCreated :> NewResponseRef("User"))]
\* post /b -> 201 User
RoutePostLowerCreated ==
  [NewRouteRef(MethodPostLower, PathB, StatusCreated) EXCEPT
     !.Responses = (StatusCreated :> NewResponseRef("User"))]
\* GET /a -> 200 User, with security
RouteSecured ==
  [NewRouteRef(MethodGet, PathA, 0) EXCEPT
     !.Security = <<Bearer>>,
     !.Responses = (StatusOK :> NewResponseRef("User"))]
\* GET /a -> 200 User, 401 string with its own description and header, with
\* security
RouteSecuredOwn ==
  [NewRouteRef(MethodGet, PathA, 0) EXCEPT
     !.Security = <<Bearer>>,
     !.Responses = (StatusOK :> NewResponseRef("User"))
                   @@ (StatusUnauthorized :>
                         [NewResponseRef("string") EXCEPT
                            !.Description = "own", !.Headers = <<OwnHeader>>])]

DXRoutes ==
  {RoutePostCreated, RoutePostLocation, RoutePostOK, RouteGetCreated,
   RoutePostLowerCreated, RouteSecured, RouteSecuredOwn}

InitDX == InitReg

NextDX ==
  \/ \E r \in DXRoutes : RegisterRoute(r)
  \/ BuildSnapshot

SpecDX == InitDX /\ [][NextDX]_vars

(***************************************************************************)
(* SpecResp: a caller declares the responses of its descriptor refs[1]     *)
(* with RegisterResponse, EnsureResponse and the options built on it.      *)
(* lastCall is the call made last: its name and its status.                *)
(***************************************************************************)
RespStatuses == {StatusOK, StatusBadRequest}
RespModels == {"", "User"}
ResponseOptions ==
  {[kind |-> "description", v |-> "own"], [kind |-> "contentType", v |-> ""],
   [kind |-> "explicitModel", v |-> "Node"],
   [kind |-> "headers",
    v |-> <<[Name |-> "X-Reason", Description |-> "why", SchemaType |-> "integer",
             Required |-> TRUE]>>]}
RespOptionLists == {<<>>} \cup {<<o>> : o \in ResponseOptions}

CallOnDescriptor(name, status, r) ==
  /\ refs' = [refs EXCEPT ![1] = r]
  /\ lastCall' = [typ |-> name, ref |-> status, err |-> ""]
  /\ UNCHANGED <<routes, plugins, regLog, lastReg, snap, bld, np, prev, hnd, doc,
               concVars>>

InitResp ==
  /\ refs = <<NewRouteRef(MethodGet, PathA, 0)>>
  /\ routes = <<>>
  /\ plugins = NoPlugins
  /\ regLog = <<>>
  /\ lastReg = NoReg
  /\ snap = NoSnap
  /\ bld = NewBuilderState(NoPlugins)
  /\ lastCall = NoCall
  /\ doc = NoDoc
  /\ pc = [p \in Procs |-> "idle"]
  /\ mu = Unlocked
  /\ loc = [p \in Procs |-> NoLocals]
  /\ np = NoPath
  /\ prev = NoDoc
  /\ hnd = NoHandler

NextResp ==
  \/ \E st \in RespStatuses, m \in RespModels, opts \in RespOptionLists :
       CallOnDescriptor("RegisterResponse", st, RegisterResponse(refs[1], st, m, opts))
  \/ \E st \in RespStatuses, m \in RespModels, opts \in RespOptionLists :
       CallOnDescriptor("EnsureResponse", st, EnsureResponse(refs[1], st, m, opts))
  \/ \E st \in RespStatuses :
       CallOnDescriptor("WithSuccessStatus", st, WithSuccessStatus(refs[1], st))
  \/ \E st \in RespStatuses :
       CallOnDescriptor("WithErrorResponse", st, WithErrorResponse(refs[1], st, "error"))

SpecResp == InitResp /\ [][NextResp]_vars

\* SpecDefaults: callers build descriptors with the status and the operation
\* id set or unset, and register them by pointer.
PathRoot == <<47>>
PathItem == <<47, 97, 47, 123, 105, 125>>
OwnOperationID == <<120>>
DefaultRoutes ==
  {NewRouteRef(MethodGet, PathRoot, 0),
   NewRouteRef(MethodPost, PathItem, 0),
   NewRouteRef(MethodDelete, PathItem, 0),
   NewRouteRef(MethodPost, PathItem, StatusAccepted),
   [NewRouteRef(MethodDelete, PathRoot, 0) EXCEPT !.OperationID = OwnOperationID]}

\* &RouteRef{...}: a descriptor on the heap, not yet registered.
NewRoute(ref) ==
  /\ Len(refs) < MaxRefs
  /\ refs' = Append(refs, ref)
  /\ UNCHANGED <<routes, plugins, regLog, lastReg, snap>>
  /\ UNCHANGED <<bldVars, doc, concVars>>

\* RegisterRoute(ref) with the pointer id of a descriptor that is not stored.
RegisterRoutePointer(id) ==
  /\ id \in 1..Len(refs)
  /\ \A i \in 1..Len(routes) : routes[i] # id
  /\ \E r \in {RegisterRouteCode(refs, routes, id)} :
       /\ refs' = r.refs
       /\ routes' = r.routes
       /\ regLog' = Append(regLog, [ref |-> id, observers |-> plugins,
                                     invoked |-> r.invoked])
       /\ lastReg' = [called |-> TRUE, rejecting |-> FALSE,
                      failed |-> r.failed, stored |-> TRUE,
                      kept |-> r.routes = routes]
  /\ UNCHANGED <<plugins, snap>>
  /\ UNCHANGED <<bldVars, doc, concVars>>

InitDefaults == InitReg

NextDefaults ==
  \/ \E ref \in DefaultRoutes : NewRoute(ref)
  \/ \E id \in 1..MaxRefs : RegisterRoutePointer(id)

SpecDefaults == InitDefaults /\ [][NextDefaults]_vars

(***************************************************************************)
(* SpecErr: Build on routes with unsupported methods and types, with a     *)
(* plugin that returns errors.                                             *)
(***************************************************************************)
MethodTrace == <<84, 82, 65, 67, 69>>

\* The types with a map whose key is not a string: the map itself, behind a
\* pointer, as a slice element, as a map value, as a struct field.
BadMapTypes == {"map[int]string", "*map[int]string", "[]map[int]string",
                "map[string]map[int]string", "Bad"}

\* GET /a -> 200 string
RouteGetString ==
  [NewRouteRef(MethodGet, PathA, 0) EXCEPT
     !.Responses = (StatusOK :> NewResponseRef("string"))]
\* TRACE /b -> 200 User
RouteTraceUser ==
  [NewRouteRef(MethodTrace, PathB, 0) EXCEPT
     !.Responses = (StatusOK :> NewResponseRef("User"))]
\* GET /b -> 200 chan int
RouteGetChan ==
  [NewRouteRef(MethodGet, PathB, 0) EXCEPT
     !.Responses = (StatusOK :> NewResponseRef("chan"))]
\* PUT /b, body User -> 200 t
RoutePut(t) ==
  [NewRouteRef(MethodPut, PathB, 0) EXCEPT
     !.RequestType = "User", !.Responses = (StatusOK :> NewResponseRef(t))]

ErrRoutes == {RouteGetUser("s1"), RouteGetString, RouteTraceUser, RouteGetChan}
             \cup {RoutePut(t) : t \in BadMapTypes}

InitErr == InitReg

NextErr ==
  \/ \E k \in HookKinds : refs = <<>> /\ RegisterPlugin(PlugA, k)
  \/ \E r \in ErrRoutes : RegisterRoute(r)
  \/ BuildSnapshot

SpecErr == InitErr /\ [][NextErr]_vars

(***************************************************************************)
(* SpecRebuild: one Builder is used for several Builds.  Here bld is the   *)
(* Builder between its Builds together with the schemas and property maps  *)
(* that its Builds allocated; the documents returned point into them.      *)
(***************************************************************************)
MaxBuilds == 3

\* NewBuilder(): no document, no cache; nothing allocated yet.
NewBuilder ==
  [nodes |-> <<>>, maps |-> <<>>, cache |-> <<>>, comps |-> <<>>, log |-> <<>>,
   ps |-> NoPlugins, held |-> FALSE, base |-> 0, builds |-> 0]

\* Build up to its loop: b.doc is a new document with no component and
\* b.schemaCache a new map; base is the number of schemas allocated before.
BuildStart(b, ps) ==
  [b EXCEPT !.cache = <<>>, !.comps = <<>>, !.log = <<>>, !.ps = ps,
            !.held = TRUE, !.base = Len(b.nodes), !.builds = @ + 1]

BuildEnd_Keep(b) == b

\* The deferred function of Build: b.doc = nil; b.schemaCache = nil
BuildEnd(b) == [b EXCEPT !.cache = <<>>, !.comps = <<>>, !.held = FALSE]

\* b.Build(apix.Snapshot()) on the Builder bld.
Rebuild ==
  /\ bld.builds < MaxBuilds
  /\ \E out \in {SnapshotCode(refs, routes)} :
       /\ snap' = [taken |-> TRUE, out |-> out, vals |-> Deref(refs, out),
                   log |-> [i \in 1..Len(regLog) |-> regLog[i].ref]]
       /\ \E r \in {addRoutes(<<>>, BuildStart(bld, plugins), Deref(refs, out), 1)} :
            /\ doc' = RoutesAdded(r, plugins)
            /\ bld' = BuildEnd(r.b)
  /\ prev' = IF doc.built /\ ~doc.nil THEN doc ELSE prev
  /\ UNCHANGED <<refs, routes, plugins, regLog, lastReg, lastCall, np, hnd, concVars>>

\* The caller of an earlier Build changes the description of a component
\* schema of the document it got.
MutateSchema(id) ==
  /\ prev.built /\ ~prev.nil
  /\ \E n \in DOMAIN prev.comps : prev.comps[n] = id
  /\ bld.nodes[id].desc # "changed"
  /\ bld' = [bld EXCEPT !.nodes[id].desc = "changed"]
  /\ UNCHANGED <<regVars, lastCall, np, prev, hnd, doc, concVars>>

RebuildRoutes == {RouteGetUser("s1"), RouteGetNode, RouteGetChan}

InitRebuild ==
  /\ refs = <<>>
  /\ routes = <<>>
  /\ plugins = NoPlugins
  /\ regLog = <<>>
  /\ lastReg = NoReg
  /\ snap = NoSnap
  /\ bld = NewBuilder
  /\ lastCall = NoCall
  /\ doc = NoDoc
  /\ pc = [p \in Procs |-> "idle"]
  /\ mu = Unlocked
  /\ loc = [p \in Procs |-> NoLocals]
  /\ np = NoPath
  /\ prev = NoDoc
  /\ hnd = NoHandler

NextRebuild ==
  \/ \E r \in RebuildRoutes : RegisterRoute(r)
  \/ ResetRegistry
  \/ Rebuild
  \/ \E id \in 1..Len(bld.nodes) : MutateSchema(id)

SpecRebuild == InitRebuild /\ [][NextRebuild]_vars

\* SpecFrame: descriptors with parameters, placeholders and security are
\* registered, and the registry is built, again and again.  Build works on
\* the pointers of the snapshot: what it writes through them is written to
\* the stored descriptors.
PathColon == <<47, 58, 97>>
RouteColonUser ==
  [NewRouteRef(MethodPost, PathColon, 0) EXCEPT
     !.Parameters = <<ParamY, ParamX>>,
     !.Responses = (StatusCreated :> NewResponseRef("User"))]
FrameRoutes == {RoutePostUser, RouteColonUser, RouteSecured, RouteGetUser("s1")}

\* doc, err := b.Build(apix.Snapshot()) on a new Builder
BuildPointers ==
  /\ \E out \in {SnapshotCode(refs, routes)} :
       /\ snap' = [taken |-> TRUE, out |-> out, vals |-> Deref(refs, out),
                   log |-> [i \in 1..Len(regLog) |-> regLog[i].ref]]
       /\ doc' = Build(Deref(refs, out), plugins)
       /\ refs' = HeapAfterRoutes(refs, out, 1)
  /\ prev' = doc
  /\ UNCHANGED <<routes, plugins, regLog, lastReg, bld, lastCall, np, hnd, concVars>>

InitFrame == InitReg

NextFrame ==
  \/ \E r \in FrameRoutes : RegisterRoute(r)
  \/ Snapshot
  \/ BuildPointers

SpecFrame == InitFrame /\ [][NextFrame]_vars

\* SpecParams: one descriptor is registered with a list of parameters, in any
\* order and with repetitions, and the registry is built.
MaxParams == 3
InHeader == <<104, 101, 97, 100, 101, 114>>
\* y in query, required, without a type hint
ParamYRequired == [Name |-> <<121>>, In |-> InQuery, Required |-> TRUE, SchemaType |-> ""]
\* z in header
ParamZ == [Name |-> <<122>>, In |-> InHeader, Required |-> FALSE, SchemaType |-> "string"]
ParamLists ==
  UNION {[1..n -> {ParamX, ParamY, ParamYRequired, ParamZ}] : n \in 0..MaxParams}
RouteWithParams(params) ==
  [NewRouteRef(MethodGet, PathA, 0) EXCEPT
     !.Parameters = params, !.Responses = (StatusOK :> NewResponseRef("User"))]

InitParams == InitReg

NextParams ==
  \/ \E params \in ParamLists : refs = <<>> /\ RegisterRoute(RouteWithParams(params))
  \/ BuildSnapshot

SpecParams == InitParams /\ [][NextParams]_vars

(***************************************************************************)
(* openapi/builder.go: the configuration of a Builder, and the document    *)
(* of a Build, which points into it.                                       *)
(***************************************************************************)
\* A slice is an array of the memory and a length; its capacity is the
\* length of the array.  The nil slice has no array.
NilSlice == [arr |-> 0, len |-> 0]

\* The elements of the slice s in the memory m.
Elems(m, s) == [i \in 1..s.len |-> m.arrays[s.arr][i]]

\* append(s, x): in place when the capacity allows it, else in a new array
\* of twice the length.
AppendSlice(m, s, x) ==
  IF s.arr # 0 /\ s.len < Len(m.arrays[s.arr])
  THEN [m |-> [m EXCEPT !.arrays[s.arr][s.len + 1] = x],
        s |-> [arr |-> s.arr, len |-> s.len + 1]]
  ELSE [m |-> [m EXCEPT !.arrays =
                 Append(@, Elems(m, s) \o <<x>> \o [k \in 1..(s.len - 1) |-> ""])],
        s |-> [arr |-> Len(m.arrays) + 1, len |-> s.len + 1]]

\* NewBuilder(): the Builder and the memory its fields point to.
NewConfiguredBuilder ==
  [Info |-> [Title |-> "API", Version |-> "1.0.0", Description |-> ""],
   Servers |-> NilSlice, SecuritySchemes |-> 0, GlobalSecurity |-> NilSlice,
   Tags |-> NilSlice, maps |-> <<>>, arrays |-> <<>>]

\* b.Servers = append(b.Servers, &openapi3.Server{URL: srv})
AddServer(b, srv) ==
  LET r == AppendSlice(b, b.Servers, srv) IN [r.m EXCEPT !.Servers = r.s]

\* b.SecuritySchemes = openapi3.SecuritySchemes{name: ...}
SetSecuritySchemes(b, name) ==
  [b EXCEPT !.maps = Append(@, name :> "scheme"),
            !.SecuritySchemes = Len(b.maps) + 1]

\* b.GlobalSecurity = openapi3.SecurityRequirements{{name: {}}}
SetGlobalSecurity(b, name) ==
  [b EXCEPT !.arrays = Append(@, <<name>>),
            !.GlobalSecurity = [arr |-> Len(b.arrays) + 1, len |-> 1]]

\* The document that Build creates: Info is &b.Info, and the slices and
\* the map are those of the Builder.
NewDocument(b) ==
  [Servers |-> b.Servers, SecuritySchemes |-> b.SecuritySchemes,
   Security |-> IF b.GlobalSecurity.len > 0 THEN b.GlobalSecurity ELSE NilSlice,
   Tags |-> b.Tags]

\* SecuritySchemesPlugin.OnSpecBuild(doc) with Schemes {"apiKey": ...} and
\* GlobalSecurity [{"apiKey": {}}], on the memory b and the document d.
SchemesAdded(b, d, id) ==
  LET r == AppendSlice([b EXCEPT !.maps[id] = ("apiKey" :> "scheme") @@ @],
                       d.Security, "apiKey")
  IN [b |-> r.m, d |-> [d EXCEPT !.SecuritySchemes = id, !.Security = r.s]]

SecuritySchemesOnSpecBuild(b, d) ==
  IF d.SecuritySchemes = 0
  THEN SchemesAdded([b EXCEPT !.maps = Append(@, <<>>)], d, Len(b.maps) + 1)
  ELSE SchemesAdded(b, d, d.SecuritySchemes)

\* An observer whose OnSpecBuild sets doc.Info.Description.
InfoOnSpecBuild(b, d) ==
  [b |-> [b EXCEPT !.Info.Description = "text"], d |-> d]

\* The OnSpecBuild calls of ExecuteOnSpecBuild(doc), from call i on.
RECURSIVE RunOnSpecBuild(_, _, _)
RunOnSpecBuild(r, calls, i) ==
  IF i > Len(calls) THEN r
  ELSE RunOnSpecBuild(
         CASE calls[i].kind = "schemes" -> SecuritySchemesOnSpecBuild(r.b, r.d)
           [] calls[i].kind = "info" -> InfoOnSpecBuild(r.b, r.d)
           [] OTHER -> r,
         calls, i + 1)

\* What the fields of the Builder b say.
Configuration(b) ==
  [Info |-> b.Info, Servers |-> Elems(b, b.Servers),
   SecuritySchemes |-> IF b.SecuritySchemes = 0 THEN <<>>
                       ELSE b.maps[b.SecuritySchemes],
   GlobalSecurity |-> Elems(b, b.GlobalSecurity), Tags |-> Elems(b, b.Tags)]

\* What the document d says, in the memory b.
DocumentOf(b, d) ==
  [Info |-> b.Info, Servers |-> Elems(b, d.Servers),
   SecuritySchemes |-> IF d.SecuritySchemes = 0 THEN <<>>
                       ELSE b.maps[d.SecuritySchemes],
   Security |-> Elems(b, d.Security), Tags |-> Elems(b, d.Tags)]

\* The Builder after the Build that ended in r: what the document alone
\* points to leaves with the document.
BuilderAfter(b, r) ==
  [r.b EXCEPT !.maps = SubSeq(@, 1, Len(b.maps)),
              !.arrays = SubSeq(@, 1, Len(b.arrays))]

\* SpecConfig: a Builder is configured as the runtime handler and its
\* CustomizeBuilder do it, observers and routes are registered, and then
\* the Builder builds again and again.
ConfigKinds == {"schemes", "info"}
ServerLists == {<<>>, <<"s1">>, <<"s1", "s2", "s3">>}

RECURSIVE AddServers(_, _)
AddServers(b, srvs) ==
  IF srvs = <<>> THEN b ELSE AddServers(AddServer(b, Head(srvs)), Tail(srvs))

Builders ==
  {AddServers(b, srvs) :
     b \in {NewConfiguredBuilder,
            SetSecuritySchemes(NewConfiguredBuilder, "BearerAuth"),
            SetGlobalSecurity(SetSecuritySchemes(NewConfiguredBuilder, "BearerAuth"),
                              "BearerAuth")},
     srvs \in ServerLists}

\* doc, err := b.Build(apix.Snapshot()) on the configured Builder
BuildConfigured ==
  /\ \E r \in {RunOnSpecBuild([b |-> bld, d |-> NewDocument(bld)],
                               ExecutePlugins(plugins).calls, 1)} :
       /\ bld' = BuilderAfter(bld, r)
       /\ doc' = [Build(Deref(refs, SnapshotCode(refs, routes)), plugins)
                    EXCEPT !.ext = DocumentOf(r.b, r.d)]
  /\ prev' = doc
  /\ UNCHANGED <<regVars, lastCall, np, hnd, concVars>>

InitConfig ==
  /\ refs = <<>>
  /\ routes = <<>>
  /\ plugins = NoPlugins
  /\ regLog = <<>>
  /\ lastReg = NoReg
  /\ snap = NoSnap
  /\ bld \in Builders
  /\ lastCall = NoCall
  /\ doc = NoDoc
  /\ pc = [p \in Procs |-> "idle"]
  /\ mu = Unlocked
  /\ loc = [p \in Procs |-> NoLocals]
  /\ np = NoPath
  /\ prev = NoDoc
  /\ hnd = NoHandler

NextConfig ==
  \/ \E n \in PluginNames, k \in ConfigKinds : ~doc.built /\ RegisterPlugin(n, k)
  \/ ~doc.built /\ RegisterRoute(RouteGetUser("s1"))
  \/ BuildConfigured

SpecConfig == InitConfig /\ [][NextConfig]_vars

(***************************************************************************)
(* runtime: the Handler that serves the document, and its cache.           *)
(***************************************************************************)
\* time.Time{}: lastBuilt before the first build.  The clock starts after it.
ZeroTime == 0
MaxTime == 3
CacheTTLs == {0, 2}
Formats == {"json", "yaml"}

\* openapi.EncodeDocument(doc, format): the payload stands for the bytes
\* that encode the paths and the components of doc in the format.
EncodeDocument(d, format) ==
  CASE format \in {"yaml", "yml", ""} ->
         [data |-> <<"yaml", d.paths, DOMAIN d.comps>>,
          ctype |-> "application/yaml", err |-> ""]
    [] format = "json" ->
         [data |-> <<"json", d.paths, DOMAIN d.comps>>,
          ctype |-> "application/json", err |-> ""]
    [] OTHER -> [data |-> <<>>, ctype |-> "", err |-> "unsupported format"]

\* NewHandler(cfg) at the time now: an empty format is json.  served is the
\* history of the Handler: the payload, the content type and the time of
\* its last successful build.
NewHandler(format, ttl, now) ==
  [made |-> TRUE,
   cfg |-> [Format |-> IF format = "" THEN "json" ELSE format, CacheTTL |-> ttl],
   lastBuilt |-> ZeroTime, cachedBytes |-> <<>>, contentType |-> "",
   now |-> now,
   served |-> [payload |-> <<>>, ctype |-> "", at |-> ZeroTime]]

\* What a caller of getSpec holds: the data its build encoded, and what
\* getSpec returned to it.
NoResult == [data |-> <<>>, payload |-> <<>>, ctype |-> "", err |-> "",
             returned |-> FALSE]

CacheValid_IgnoreTTL(h) == h.lastBuilt # ZeroTime

\* The condition of getSpec under h.mu.RLock().
CacheValid(h) ==
  /\ h.cfg.CacheTTL > 0
  /\ h.lastBuilt # ZeroTime
  /\ h.now - h.lastBuilt < h.cfg.CacheTTL

\* getSpec from the builder pool to EncodeDocument, on the snapshot rs of
\* the registry; valid is the outcome of doc.Validate.
EncodedBuild(d, format, valid) ==
  IF d.err # "" THEN [doc |-> d, data |-> <<>>, ctype |-> "", err |-> "build openapi"]
  ELSE IF ~valid THEN [doc |-> d, data |-> <<>>, ctype |-> "", err |-> "validate openapi"]
  ELSE [doc |-> d] @@ EncodeDocument(d, format)

getSpecBuild(h, rs, ps, old, valid) ==
  IF Len(rs) = 0
  THEN [doc |-> old, data |-> <<>>, ctype |-> "", err |-> "no routes registered"]
  ELSE EncodedBuild(Build(rs, ps), h.cfg.Format, valid)

\* A request: getSpec to its first return, or to the builder pool.
GetSpec(p) ==
  /\ pc[p] \in {"idle", "done"}
  /\ IF CacheValid(hnd)
     THEN /\ pc' = [pc EXCEPT ![p] = "done"]
          /\ loc' = [loc EXCEPT ![p] = [NoResult EXCEPT !.payload = hnd.cachedBytes,
                                                      !.ctype = hnd.contentType,
                                                      !.returned = TRUE]]
     ELSE /\ pc' = [pc EXCEPT ![p] = "build"]
          /\ loc' = [loc EXCEPT ![p] = NoResult]
  /\ lastCall' = [typ |-> "getSpec", ref |-> p, err |-> ""]
  /\ UNCHANGED <<regVars, bld, np, prev, hnd, doc, mu>>

\* getSpec from the builder pool to EncodeDocument.
GetSpecBuild(p, valid) ==
  /\ pc[p] = "build"
  /\ \E out \in {SnapshotCode(refs, routes)} :
       /\ snap' = [taken |-> TRUE, out |-> out, vals |-> Deref(refs, out),
                   log |-> [i \in 1..Len(regLog) |-> regLog[i].ref]]
       /\ \E r \in {getSpecBuild(hnd, Deref(refs, out), plugins, doc, valid)} :
            /\ doc' = r.doc
            /\ pc' = [pc EXCEPT ![p] = IF r.err # "" THEN "done" ELSE "store"]
            /\ loc' = [loc EXCEPT ![p] = [NoResult EXCEPT !.data = r.data,
                                                        !.ctype = r.ctype,
                                                        !.err = r.err,
                                                        !.returned = r.err # ""]]
  /\ lastCall' = [typ |-> "build", ref |-> p, err |-> ""]
  /\ UNCHANGED <<refs, routes, plugins, regLog, lastReg, bld, np, prev, hnd, mu>>

\* getSpec from h.mu.Lock() to its return.
GetSpecStore(p) ==
  /\ pc[p] = "store"
  /\ hnd' = [hnd EXCEPT !.cachedBytes = loc[p].data,
                         !.contentType = loc[p].ctype,
                         !.lastBuilt = hnd.now,
                         !.served = [payload |-> loc[p].data, ctype |-> loc[p].ctype,
                                     at |-> hnd.now]]
  /\ pc' = [pc EXCEPT ![p] = "done"]
  /\ loc' = [loc EXCEPT ![p].payload = loc[p].data, ![p].returned = TRUE]
  /\ lastCall' = [typ |-> "store", ref |-> p, err |-> ""]
  /\ UNCHANGED <<regVars, bld, np, prev, doc, mu>>

\* Time passes.
Tick ==
  /\ hnd.now < MaxTime
  /\ hnd' = [hnd EXCEPT !.now = @ + 1]
  /\ UNCHANGED <<regVars, bld, lastCall, np, prev, doc, concVars>>

\* SpecHandler: GET /a and then GET /b are registered, time passes, and
\* concurrent requests ask a Handler for the document.
HandlerRoutes == <<RouteGetUser("s1"), RouteGetNode>>

InitHandler ==
  /\ refs = <<>>
  /\ routes = <<>>
  /\ plugins = NoPlugins
  /\ regLog = <<>>
  /\ lastReg = NoReg
  /\ snap = NoSnap
  /\ bld = NewBuilderState(NoPlugins)
  /\ lastCall = NoCall
  /\ doc = NoDoc
  /\ pc = [p \in Procs |-> "idle"]
  /\ mu = Unlocked
  /\ loc = [p \in Procs |-> NoResult]
  /\ np = NoPath
  /\ prev = NoDoc
  /\ \E format \in Formats, ttl \in CacheTTLs : hnd = NewHandler(format, ttl, ZeroTime + 1)

NextHandler ==
  \/ Len(routes) < Len(HandlerRoutes) /\ RegisterRoute(HandlerRoutes[Len(routes) + 1])
  \/ Tick
  \/ \E p \in Procs : GetSpec(p)
  \/ \E p \in Procs, valid \in BOOLEAN : GetSpecBuild(p, valid)
  \/ \E p \in Procs : GetSpecStore(p)

SpecHandler == InitHandler /\ [][NextHandler]_vars

(***************************************************************************)
(* SpecConc: goroutines call RegisterRoute, ResetRegistry and Snapshot     *)
(* concurrently; every statement of a call is a step.                      *)
(***************************************************************************)
\* mu.Lock() returns when no goroutine holds the mutex.
CanLock(m) == m.writer = 0 /\ m.readers = {}
CanRLock_NoWait(m) == TRUE

\* mu.RLock() returns when no writer holds the mutex.
CanRLock(m) == m.writer = 0

Goto(p, l) == pc' = [pc EXCEPT ![p] = l]

\* RegisterRoute(ref): the caller has built ref.
CallRegisterRoute(p, ref) ==
  /\ pc[p] = "idle"
  /\ Len(refs) < MaxRefs
  /\ refs' = Append(refs, ref)
  /\ loc' = [loc EXCEPT ![p] = [ref |-> Len(refs) + 1, out |-> <<>>]]
  /\ Goto(p, "reg_lock")
  /\ UNCHANGED <<routes, mu>>

RegLock(p) ==
  /\ pc[p] = "reg_lock"
  /\ CanLock(mu)
  /\ mu' = [mu EXCEPT !.writer = p]
  /\ Goto(p, "reg_default")
  /\ UNCHANGED <<refs, routes, loc>>

RegDefault(p) ==
  /\ pc[p] = "reg_default"
  /\ refs' = IF refs[loc[p].ref].SuccessStatus = 0
             THEN [refs EXCEPT ![loc[p].ref].SuccessStatus =
                                 DefaultSuccessStatus(refs[loc[p].ref].Method)]
             ELSE refs
  /\ Goto(p, "reg_append")
  /\ UNCHANGED <<routes, mu, loc>>

RegAppend(p) ==
  /\ pc[p] = "reg_append"
  /\ routes' = Append(routes, loc[p].ref)
  /\ Goto(p, "reg_unlock")
  /\ UNCHANGED <<refs, mu, loc>>

\* The deferred mu.Unlock() of RegisterRoute and of ResetRegistry.
Unlock(p) ==
  /\ pc[p] \in {"reg_unlock", "reset_unlock"}
  /\ mu' = [mu EXCEPT !.writer = 0]
  /\ Goto(p, "idle")
  /\ UNCHANGED <<refs, routes, loc>>

CallResetRegistry(p) ==
  /\ pc[p] = "idle"
  /\ Goto(p, "reset_lock")
  /\ loc' = [loc EXCEPT ![p] = NoLocals]
  /\ UNCHANGED <<refs, routes, mu>>

ResetLock(p) ==
  /\ pc[p] = "reset_lock"
  /\ CanLock(mu)
  /\ mu' = [mu EXCEPT !.writer = p]
  /\ Goto(p, "reset_clear")
  /\ UNCHANGED <<refs, routes, loc>>

ResetClear(p) ==
  /\ pc[p] = "reset_clear"
  /\ routes' = ResetRegistryCode(routes)
  /\ Goto(p, "reset_unlock")
  /\ UNCHANGED <<refs, mu, loc>>

CallSnapshot(p) ==
  /\ pc[p] = "idle"
  /\ Goto(p, "snap_rlock")
  /\ loc' = [loc EXCEPT ![p] = NoLocals]
  /\ UNCHANGED <<refs, routes, mu>>

SnapRLock(p) ==
  /\ pc[p] = "snap_rlock"
  /\ CanRLock(mu)
  /\ mu' = [mu EXCEPT !.readers = @ \cup {p}]
  /\ Goto(p, "snap_make")
  /\ UNCHANGED <<refs, routes, loc>>

\* out := make([]*RouteRef, len(globalRegistry.routes)): nil pointers (0)
SnapMake(p) ==
  /\ pc[p] = "snap_make"
  /\ loc' = [loc EXCEPT ![p].out = [i \in 1..Len(routes) |-> 0]]
  /\ Goto(p, "snap_copy")
  /\ UNCHANGED <<refs, routes, mu>>

\* copy(out, globalRegistry.routes): as many elements as the shorter has
SnapCopy(p) ==
  /\ pc[p] = "snap_copy"
  /\ loc' = [loc EXCEPT ![p].out =
               [i \in 1..Len(@) |-> IF i <= Len(routes) THEN routes[i] ELSE 0]]
  /\ Goto(p, "snap_sort")
  /\ UNCHANGED <<refs, routes, mu>>

SnapSort(p) ==
  /\ pc[p] = "snap_sort"
  /\ loc' = [loc EXCEPT ![p].out = SortRoutesFrom(refs, @, 2)]
  /\ Goto(p, "snap_runlock")
  /\ UNCHANGED <<refs, routes, mu>>

\* The deferred mu.RUnlock(); the call returns out.
SnapRUnlock(p) ==
  /\ pc[p] = "snap_runlock"
  /\ mu' = [mu EXCEPT !.readers = @ \ {p}]
  /\ Goto(p, "idle")
  /\ UNCHANGED <<refs, routes, loc>>

ConcMethods == {MethodGet, MethodPost}

InitConc == InitReg

NextConc ==
  /\ UNCHANGED <<plugins, regLog, lastReg, snap, bldVars, doc>>
  /\ \E p \in Procs :
       \/ \E m \in ConcMethods : CallRegisterRoute(p, NewRouteRef(m, PathA, 0))
       \/ RegLock(p)
       \/ RegDefault(p)
       \/ RegAppend(p)
       \/ Unlock(p)
       \/ CallResetRegistry(p)
       \/ ResetLock(p)
       \/ ResetClear(p)
       \/ CallSnapshot(p)
       \/ SnapRLock(p)
       \/ SnapMake(p)
       \/ SnapCopy(p)
       \/ SnapSort(p)
       \/ SnapRUnlock(p)

SpecConc == InitConc /\ [][NextConc]_vars


Range(s) == {s[i] : i \in 1..Len(s)}
Count(s, x) == Cardinality({i \in 1..Len(s) : s[i] = x})
SameBag(s, t) ==
  /\ Len(s) = Len(t)
  /\ \A x \in Range(s) \cup Range(t) : Count(s, x) = Count(t, x)

(***************************************************************************)
(* Claims about the builder.                                               *)
(***************************************************************************)
\* The registration orders of the descriptors of s.
Orders(s) == {q \in [1..Len(s) -> Range(s)] : SameBag(q, s)}

\* What C1 compares of two documents: the path keys, the operation under
\* every (path, method) with its parameter order, and the component keys.
OpView(op) ==
  [OperationID |-> op.OperationID, Summary |-> op.Summary, Tags |-> op.Tags,
   Parameters |-> op.Parameters, Statuses |-> DOMAIN op.Responses,
   HasBody |-> op.RequestBody.Schema # 0]
DocView(d) ==
  [nil |-> d.nil,
   ops |-> [p \in DOMAIN d.paths |->
              [m \in DOMAIN d.paths[p] |-> OpView(d.paths[p][m])]],
   comps |-> DOMAIN d.comps]

SnapshotAndBuild(rs) == Build(Deref(refs, SnapshotCode(refs, rs)), plugins)

\* C1: whatever the order in which the descriptors of the registry were
\* registered, Snapshot followed by Build yields the same document (path
\* keys, operations, parameter order, component keys).
C1_BuildIndependentOfRegistrationOrder ==
  \A q \in Orders(routes) :
    DocView(SnapshotAndBuild(q)) = DocView(SnapshotAndBuild(routes))

\* The schemas the operations of document d refer to, with the Go type each
\* was built for.
OpSchemaRefs(d) ==
  UNION {UNION {
    LET op == d.paths[p][m]
    IN (IF op.RequestBody.Schema = 0 THEN {}
        ELSE {[goType |-> op.RequestBody.goType, Schema |-> op.RequestBody.Schema,
               path |-> p, method |-> m]})
       \cup {[goType |-> op.Responses[c].Content.goType,
               Schema |-> op.Responses[c].Content.Schema,
               path |-> p, method |-> m] :
              c \in {x \in DOMAIN op.Responses : op.Responses[x].Content.Schema # 0}}
    : m \in DOMAIN d.paths[p]} : p \in DOMAIN d.paths}

RefersTo(b, f, c) ==
  \/ f = c
  \/ b.nodes[f].type = "array" /\ b.nodes[f].items = c
  \/ b.nodes[f].nullable /\ b.nodes[f].allOf = <<c>>

RECURSIVE StripToStruct(_)
StripToStruct(t) ==
  IF TypeInfo(t).kind \in {"ptr", "slice"} THEN StripToStruct(TypeInfo(t).elem) ELSE t

\* C3: building the schema of a named struct with a pointer or a slice to
\* itself (directly or through another struct) ends without error, and the
\* recursive field of the component is a reference to the component it
\* points back to.
C3_RecursiveStructSelfReference ==
  /\ lastCall.err = ""
  /\ \A t \in NamedStructs \cap DOMAIN bld.cache :
       \A i \in 1..Len(TypeInfo(t).fields) :
         LET f == TypeInfo(t).fields[i]
             u == StripToStruct(f.typ)
             m == bld.maps[bld.nodes[bld.cache[t]].props]
         IN (u \in NamedStructs /\ u \in DOMAIN bld.cache) =>
              /\ jsonName(f).name \in DOMAIN m
              /\ RefersTo(bld, m[jsonName(f).name], bld.cache[u])

\* C4: a schemaRefFromType call leaves every cached schema where it is and
\* not nullable, and a call for a pointer to a type whose schema is cached
\* changes no field of any cached schema.
C4_NullableWrapLeavesCache ==
  [][/\ \A t \in DOMAIN bld'.cache : ~bld'.nodes[bld'.cache[t]].nullable
     /\ \A t \in DOMAIN bld.cache :
          /\ t \in DOMAIN bld'.cache
          /\ bld'.cache[t] = bld.cache[t]
          /\ (/\ TypeInfo(lastCall'.typ).kind = "ptr"
              /\ StripPointers(lastCall'.typ) \in DOMAIN bld.cache)
             => /\ bld'.nodes[bld.cache[t]] = bld.nodes[bld.cache[t]]
                /\ bld'.maps[bld.nodes[bld.cache[t]].props]
                     = bld.maps[bld.nodes[bld.cache[t]].props]]_vars

\* *User was built after User and a second schema: the result is a nullable
\* copy and the cached schema of User is not nullable.
C4_Witness ==
  /\ lastCall.typ = "*User"
  /\ lastCall.err = ""
  /\ "User" \in DOMAIN bld.cache
  /\ Len(bld.nodes) = 5
  /\ lastCall.ref # bld.cache["User"]
  /\ bld.nodes[lastCall.ref].nullable
  /\ ~bld.nodes[bld.cache["User"]].nullable

WriterSection == {"reg_default", "reg_append", "reg_unlock", "reset_clear", "reset_unlock"}
ReaderSection == {"snap_make", "snap_copy", "snap_sort", "snap_runlock"}

\* C10: while a RegisterRoute or ResetRegistry call is between its Lock and
\* its Unlock no other call is between its lock and its unlock, and what a
\* Snapshot call returns holds the registered routes of one moment: no nil
\* entry, the routes of the registry, each with its success status set.
C10_WritersExclusive ==
  /\ \A p, q \in Procs :
       (p # q /\ pc[p] \in WriterSection) =>
         pc[q] \notin (WriterSection \cup ReaderSection)
  /\ \A p \in Procs :
       pc[p] = "snap_runlock" =>
         /\ \A i \in 1..Len(loc[p].out) :
              loc[p].out[i] # 0 /\ refs[loc[p].out[i]].SuccessStatus # 0
         /\ SameBag(loc[p].out, routes)

\* Two Snapshot calls hold the read lock at the same time, one of them about
\* to return a registered route.
C10_Witness ==
  \E p, q \in Procs :
    /\ p # q
    /\ pc[p] = "snap_runlock"
    /\ Len(loc[p].out) > 0
    /\ pc[q] \in ReaderSection


\* C5: RegisterRoute calls the OnRouteRegister callback of every registered
\* observer on the descriptor before it stores it: every stored descriptor
\* was passed to every observer registered at the time of its registration,
\* and the tags a tagging observer adds are in the stored descriptor.
C5_ObserversCalledBeforeStore ==
  \A i \in 1..Len(regLog) :
    \A n \in DOMAIN regLog[i].observers :
      /\ n \in Range(regLog[i].invoked)
      /\ regLog[i].observers[n] = "tag" => n \in Range(refs[regLog[i].ref].Tags)

\* C6: a RegisterRoute call during which an observer's OnRouteRegister
\* returns an error fails visibly, does not store the descriptor and leaves
\* the registry with the routes it had before.
C6_RejectedRegistrationNotStored ==
  (lastReg.called /\ lastReg.rejecting) =>
    (lastReg.failed /\ ~lastReg.stored /\ lastReg.kept)

\* The values v are ordered by path and then by method.
SortedByPathMethod(v) ==
  \A i \in 1..(Len(v) - 1) :
    \/ StrCompare(v[i].Path, v[i + 1].Path) < 0
    \/ /\ v[i].Path = v[i + 1].Path
       /\ StrCompare(v[i].Method, v[i + 1].Method) <= 0

\* C8: the result of Snapshot holds exactly the descriptors registered since
\* the last ResetRegistry, each registration once, ordered by path and then
\* by method; after a reset with no registration it is empty.
C8_SnapshotSortedAndComplete ==
  snap.taken =>
    /\ SameBag(snap.out, snap.log)
    /\ SortedByPathMethod(snap.vals)
    /\ (snap.log = <<>> => snap.out = <<>>)

\* A snapshot of two routes, taken after a reset of a registry that had one,
\* that the sort reordered.
C8_Witness ==
  /\ snap.taken
  /\ Len(snap.out) = 2
  /\ Len(refs) = 3
  /\ snap.out # snap.log

\* C9: what a Snapshot call returned does not reflect later mutations: the
\* descriptors it lists have the contents they had when it was taken.
C9_SnapshotIsolated ==
  snap.taken => Deref(refs, snap.out) = snap.vals
(***************************************************************************)
(* Claims about the errors of Build.                                       *)
(***************************************************************************)
\* The model types of the request and the responses of route r.
RouteTypes(r) ==
  {ModelTypeOf(r.ExplicitRequestModel, r.RequestType)}
  \cup {ModelTypeOf(r.Responses[c].ExplicitModelType, r.Responses[c].ModelType) :
          c \in DOMAIN r.Responses}

\* Route r makes Build fail: its method is none of the five, or one of its
\* types is or holds an unsupported type.
FailingRoute(r) ==
  \/ ToUpper(r.Method) \notin HttpMethods
  \/ RouteTypes(r) \cap (BadMapTypes \cup {"chan"}) # {}

\* C11: a Build returns a document and no error, or an error and no
\* document.  It returns the error exactly when a route has an unsupported
\* method or type or a registered plugin returns an error; the document it
\* returns without error has the operation of every route it was given, and
\* with an error it returns no paths and no components.
C11_BuildAllOrNothing ==
  doc.built =>
    /\ doc.nil <=> doc.err # ""
    /\ doc.nil <=> \/ \E i \in 1..Len(snap.vals) : FailingRoute(snap.vals[i])
                   \/ \E n \in DOMAIN doc.ps : doc.ps[n] = "err"
    /\ doc.nil => doc.paths = <<>> /\ doc.comps = <<>> /\ doc.nodes = <<>>
    /\ ~doc.nil =>
         \A i \in 1..Len(snap.vals) :
           /\ normalizePath(snap.vals[i].Path) \in DOMAIN doc.paths
           /\ ToUpper(snap.vals[i].Method)
                \in DOMAIN doc.paths[normalizePath(snap.vals[i].Path)]

\* A Build that failed on the unsupported method of its second route, after
\* the plugin was called on the schema of the first route.
C11_Witness ==
  /\ doc.built /\ doc.nil
  /\ doc.err = "unsupported method"
  /\ Len(snap.vals) >= 2
  /\ ~FailingRoute(snap.vals[1])
  /\ Len(doc.log) > 0

\* The first route of rs for which addRoute returns an error; 0 if none.
FirstFailing(rs) ==
  IF \E i \in 1..Len(rs) : FailingRoute(rs[i])
  THEN CHOOSE i \in 1..Len(rs) :
         FailingRoute(rs[i]) /\ \A j \in 1..(i - 1) : ~FailingRoute(rs[j])
  ELSE 0

\* C12: schemaRefFromType on a map with a key that is not a string, or on a
\* pointer, slice, map or struct that holds one, returns the map key error
\* and no schema; a Build whose routes reach such a type returns no
\* document, and the map key error when that type is the first failure.
C12_MapKeyRejected ==
  /\ \A t \in BadMapTypes :
       \E r \in {schemaRefFromType(NewBuilderState(plugins), t, MaxDepth)} :
         r.err = "unsupported map key type" /\ r.ref = 0
  /\ doc.built =>
       \A i \in 1..Len(snap.vals) :
         RouteTypes(snap.vals[i]) \cap BadMapTypes # {} =>
           /\ doc.nil /\ doc.err # ""
           /\ (/\ FirstFailing(snap.vals) = i
               /\ \A n \in DOMAIN doc.ps : doc.ps[n] # "err")
                => doc.err = "unsupported map key type"

\* A Build that failed on the map of a struct field of its second route.
C12_Witness ==
  /\ doc.built /\ doc.nil
  /\ doc.err = "unsupported map key type"
  /\ Len(snap.vals) >= 2
  /\ ~FailingRoute(snap.vals[1])
  /\ "Bad" \in RouteTypes(snap.vals[2])

(***************************************************************************)
(* Claims about normalizePath.                                             *)
(***************************************************************************)
\* C13: the ':name' form and the '{name}' form of a path normalize to the
\* same string, the '{name}' form; a Build of the ':name' form under GET and
\* the '{name}' form under POST has one path entry, with both operations.
C13_PlaceholderFormsMerge ==
  /\ normalizePath(ColonForm(np.tmpl)) = normalizePath(BraceForm(np.tmpl))
  /\ normalizePath(ColonForm(np.tmpl)) = BraceForm(np.tmpl)
  /\ np.called => np.out = BraceForm(np.tmpl)
  /\ (/\ doc.built
      /\ \E i, j \in 1..Len(snap.vals) :
            snap.vals[i].Method = MethodGet /\ snap.vals[j].Method = MethodPost)
     => /\ ~doc.nil
        /\ DOMAIN doc.paths = {BraceForm(np.tmpl)}
        /\ DOMAIN doc.paths[BraceForm(np.tmpl)] = {MethodGet, MethodPost}

\* GET /:id.:x_1 and POST /{id}.{x_1} were built into one path entry.
C13_Witness ==
  /\ doc.built /\ ~doc.nil
  /\ Len(snap.vals) = 2
  /\ snap.vals[1].Path # snap.vals[2].Path
  /\ \E i \in 1..Len(np.tmpl) : np.tmpl[i] = Param(<<120, 95, 49>>)
  /\ Cardinality(DOMAIN doc.paths) = 1
  /\ np.called /\ np.in = ColonForm(np.tmpl)

\* Byte i of p stands between an opening brace and its closing brace.
InBraces(p, i) ==
  /\ \E j \in 1..(i - 1) : p[j] = 123 /\ \A k \in (j + 1)..(i - 1) : p[k] # 125
  /\ \E j \in (i + 1)..Len(p) : p[j] = 125 /\ \A k \in (i + 1)..(j - 1) : p[k] # 123

\* Path p has no placeholder in the ':name' form: every ':' is text between
\* braces.
BraceDelimited(p) == \A i \in 1..Len(p) : p[i] = 58 => InBraces(p, i)

\* C14: normalizePath returns a path whose placeholders are all brace
\* delimited unchanged, whatever stands between the braces, and returns
\* its own result unchanged.
C14_BracePathsUnchanged ==
  np.called =>
    /\ BraceDelimited(np.in) => np.out = np.in
    /\ normalizePath(np.out) = np.out

(***************************************************************************)
(* Claims about addDXDefaults.                                             *)
(***************************************************************************)
\* The descriptors of the snapshot built into the operation at path, method.
DescriptorsOf(path, method) ==
  {i \in 1..Len(snap.vals) :
     normalizePath(snap.vals[i].Path) = path /\ ToUpper(snap.vals[i].Method) = method}

\* The descriptor of the operation at path, method: the last one.
DescriptorOf(path, method) ==
  snap.vals[CHOOSE i \in DescriptorsOf(path, method) :
              \A j \in DescriptorsOf(path, method) : j <= i]

\* The descriptor declared the header on its response for the status.
Declared(d, status, name) ==
  /\ status \in DOMAIN d.Responses
  /\ \E k \in 1..Len(d.Responses[status].Headers) :
       d.Responses[status].Headers[k].Name = name

\* The header of the document is the one the descriptor declared.
AsDeclared(d, status, name, hdr) ==
  \E k \in 1..Len(d.Responses[status].Headers) :
    /\ d.Responses[status].Headers[k].Name = name
    /\ hdr.Description = d.Responses[status].Headers[k].Description
    /\ hdr.Required = d.Responses[status].Headers[k].Required
    /\ hdr.Format = ""

\* C15: after Build every POST operation with a 201 response has a Location
\* header on it, the declared one or else a required string of format uri,
\* and no response of another method or status has a Location header that
\* its descriptor did not declare.
C15_LocationOnCreated ==
  (doc.built /\ ~doc.nil) =>
    \A path \in DOMAIN doc.paths : \A method \in DOMAIN doc.paths[path] :
      \A status \in DOMAIN doc.paths[path][method].Responses :
        \A hdrs \in {doc.paths[path][method].Responses[status].Headers} :
          \A d \in {DescriptorOf(path, method)} :
            IF Declared(d, status, "Location")
            THEN "Location" \in DOMAIN hdrs
                 /\ AsDeclared(d, status, "Location", hdrs["Location"])
            ELSE IF method = MethodPost /\ status = StatusCreated
            THEN "Location" \in DOMAIN hdrs
                 /\ hdrs["Location"].Required
                 /\ hdrs["Location"].Type = "string"
                 /\ hdrs["Location"].Format = "uri"
            ELSE "Location" \notin DOMAIN hdrs

\* The response of the document for a status the descriptor declared keeps
\* the description, the content and the headers of the declaration.
KeepsOwn(rr, status, resp) ==
  /\ resp.Description = IF rr.Description = ""
                        THEN defaultResponseDescription(status)
                        ELSE rr.Description
  /\ resp.Content.goType = rr.ModelType
  /\ resp.Content.ContentType = rr.ContentType
  /\ DOMAIN resp.Headers \ {"Location"}
       = {rr.Headers[k].Name : k \in 1..Len(rr.Headers)} \ {"Location"}
  /\ \A k \in 1..Len(rr.Headers) :
       /\ resp.Headers[rr.Headers[k].Name].Description = rr.Headers[k].Description
       /\ resp.Headers[rr.Headers[k].Name].Required = rr.Headers[k].Required

\* C16: after Build an operation whose descriptor has a security
\* requirement has a 401 and a 403 response, the declared one with its own
\* description, content and headers or else one with the default
\* description; an operation whose descriptor has none has exactly the
\* responses its descriptor declared.
C16_AuthResponses ==
  (doc.built /\ ~doc.nil) =>
    \A path \in DOMAIN doc.paths : \A method \in DOMAIN doc.paths[path] :
      \A rs \in {doc.paths[path][method].Responses} :
        \A d \in {DescriptorOf(path, method)} :
          /\ DOMAIN rs = DOMAIN d.Responses
                         \cup (IF Len(d.Security) > 0
                               THEN {StatusUnauthorized, StatusForbidden} ELSE {})
          /\ \A status \in DOMAIN d.Responses :
               KeepsOwn(d.Responses[status], status, rs[status])
          /\ (StatusUnauthorized \in DOMAIN rs \ DOMAIN d.Responses)
               => rs[StatusUnauthorized]
                    = [Description |-> "Unauthorized", Content |-> NoContent,
                       Headers |-> <<>>]
          /\ (StatusForbidden \in DOMAIN rs \ DOMAIN d.Responses)
               => rs[StatusForbidden]
                    = [Description |-> "Forbidden", Content |-> NoContent,
                       Headers |-> <<>>]

\* A secured GET /a that declared its own 401 was built, next to a POST /a
\* without security.
C16_Witness ==
  /\ doc.built /\ ~doc.nil
  /\ PathA \in DOMAIN doc.paths
  /\ DOMAIN doc.paths[PathA] = {MethodGet, MethodPost}
  /\ DescriptorOf(PathA, MethodGet).Security = <<Bearer>>
  /\ StatusUnauthorized \in DOMAIN DescriptorOf(PathA, MethodGet).Responses
  /\ DescriptorOf(PathA, MethodGet).Responses[StatusUnauthorized].Description = "own"
  /\ StatusForbidden \notin DOMAIN DescriptorOf(PathA, MethodGet).Responses
  /\ doc.paths[PathA][MethodGet].Responses[StatusUnauthorized].Description = "own"
  /\ doc.paths[PathA][MethodGet].Responses[StatusForbidden].Description = "Forbidden"
  /\ DescriptorOf(PathA, MethodPost).Security = <<>>
  /\ DOMAIN doc.paths[PathA][MethodPost].Responses = {StatusCreated}

(***************************************************************************)
(* Claims about the required list of a struct schema.                      *)
(***************************************************************************)
\* The options of a tag: its parts after the first, for the json tag, whose
\* first part is the name, and all its parts for the others.
HasOmitEmpty(f) == \E i \in 2..Len(f.json) : f.json[i] = "omitempty"
HasRequiredMarker(f) ==
  \/ \E i \in 1..Len(f.validate) : f.validate[i] = "required"
  \/ \E i \in 1..Len(f.binding) : f.binding[i] = "required"

\* The fields of struct type t that are exported, not embedded and not
\* excluded.
SerializedFields(t) ==
  {i \in 1..Len(TypeInfo(t).fields) :
     /\ TypeInfo(t).fields[i].exported
     /\ ~TypeInfo(t).fields[i].anonymous
     /\ ~jsonName(TypeInfo(t).fields[i]).skip}

InRequired(sid, name) ==
  \E k \in 1..Len(bld.nodes[sid].required) : bld.nodes[sid].required[k] = name

\* C17: the serialized name of an exported, non-excluded field is in the
\* required list of its struct's schema exactly when the field has an
\* omit-when-empty marker and a required marker, or has no omit-when-empty
\* marker and has a required marker or a kind other than pointer, slice,
\* map, interface.
C17_RequiredRule ==
  \A t \in DOMAIN bld.cache :
    TypeInfo(t).kind = "struct" =>
      \A i \in SerializedFields(t) :
        \A f \in {TypeInfo(t).fields[i]} :
          InRequired(bld.cache[t], jsonName(f).name)
            <=> IF HasOmitEmpty(f) THEN HasRequiredMarker(f)
                ELSE \/ HasRequiredMarker(f)
                     \/ TypeInfo(f.typ).kind \notin {"ptr", "slice", "map", "iface"}

(***************************************************************************)
(* Claims about the plugin calls of Build.                                 *)
(***************************************************************************)
\* The types a schema of type t is built from.
Children(t) ==
  IF KindOf(t) \in {"ptr", "slice", "map"} THEN {TypeInfo(t).elem}
  ELSE IF KindOf(t) = "struct" /\ ~IsTime(t)
  THEN {TypeInfo(t).fields[i].typ : i \in
          {i \in 1..Len(TypeInfo(t).fields) :
             \/ TypeInfo(t).fields[i].anonymous
             \/ /\ i \in SerializedFields(t)
                /\ TypeInfo(t).fields[i].format \notin {"binary", "file"}}}
  ELSE {}

RECURSIVE Closure(_)
Closure(S) ==
  IF UNION {Children(t) : t \in S} \subseteq S THEN S
  ELSE Closure(S \cup UNION {Children(t) : t \in S})

\* The named struct types, but for time.Time, that the routes rs reach.
ReachedNamed(rs) ==
  {t \in Closure(UNION {RouteTypes(rs[i]) : i \in 1..Len(rs)} \ {""}) :
     KindOf(t) = "struct" /\ ~IsTime(t) /\ componentName(t) # <<>>}

SerializedNames(t) == {jsonName(TypeInfo(t).fields[i]).name : i \in SerializedFields(t)}

SchemaEvents == {i \in 1..Len(doc.log) : doc.log[i].point = "schema"}

SpecEvents == {i \in 1..Len(doc.log) : doc.log[i].point = "spec"}

\* C19: a Build that returns a document has called ExecuteOnSpecBuild once,
\* as its last plugin call, after sortPaths, on a document that had the
\* operation of every route and every component of the returned document;
\* every registered plugin was called and what the plugins added is in the
\* returned document.  A Build that returns an error has called it at most
\* once.
C19_SpecHookOnceAtEnd ==
  doc.built =>
    /\ Cardinality(SpecEvents) <= 1
    /\ ~doc.nil =>
         /\ SpecEvents = {Len(doc.log)}
         /\ \A e \in {doc.log[Len(doc.log)]} :
              /\ e.sorted
              /\ \A i \in 1..Len(snap.vals) :
                   <<normalizePath(snap.vals[i].Path), ToUpper(snap.vals[i].Method)>>
                     \in e.ops
              /\ e.ops = UNION {{<<path, m>> : m \in DOMAIN doc.paths[path]} :
                                  path \in DOMAIN doc.paths}
              /\ e.comps = DOMAIN doc.comps
              /\ \A t \in ReachedNamed(snap.vals) : componentName(t) \in e.comps
              /\ {e.calls[k].name : k \in 1..Len(e.calls)} = DOMAIN doc.ps
              /\ doc.ext = TagsOf(e.calls)
              /\ \A n \in DOMAIN doc.ps :
                   doc.ps[n] = "tag" => \E k \in 1..Len(doc.ext) : doc.ext[k] = n

\* A Build of three routes on two paths with two plugins that change the
\* document.
C19_Witness ==
  /\ doc.built /\ ~doc.nil
  /\ Len(snap.vals) = 3
  /\ Cardinality(DOMAIN doc.paths) = 2
  /\ Cardinality(DOMAIN doc.ps) = 2
  /\ Len(doc.ext) = 2
  /\ Len(doc.log) > 1

(***************************************************************************)
(* Claims about the schema cache of a Builder.                             *)
(***************************************************************************)
\* The schemas that document d points to directly: its components and the
\* schemas of its request bodies and responses.
SchemaRoots(d) ==
  ({d.comps[n] : n \in DOMAIN d.comps}
   \cup UNION {UNION {{d.paths[p][m].RequestBody.Schema}
                      \cup {d.paths[p][m].Responses[c].Content.Schema :
                              c \in DOMAIN d.paths[p][m].Responses} :
                      m \in DOMAIN d.paths[p]} : p \in DOMAIN d.paths})
  \ {0}

\* The schemas that schema id points to.
SchemaSucc(id) ==
  ({bld.nodes[id].items, bld.nodes[id].addl}
   \cup {bld.nodes[id].allOf[k] : k \in 1..Len(bld.nodes[id].allOf)}
   \cup (IF bld.nodes[id].props = 0 THEN {}
         ELSE {bld.maps[bld.nodes[id].props][k] :
                 k \in DOMAIN bld.maps[bld.nodes[id].props]}))
  \ {0}

RECURSIVE SchemaClosure(_)
SchemaClosure(S) ==
  IF UNION {SchemaSucc(id) : id \in S} \subseteq S THEN S
  ELSE SchemaClosure(S \cup UNION {SchemaSucc(id) : id \in S})

\* The schemas of document d.
NodesOf(d) == SchemaClosure(SchemaRoots(d))

\* C20: after every Build the Builder holds no cache and no document; the
\* schemas of the document a Build returned were all allocated during that
\* Build, none is a schema of the document of an earlier Build, and they
\* are as the Build returned them whatever was changed in the earlier
\* document.
C20_CacheLivesForOneBuild ==
  /\ ~bld.held /\ bld.cache = <<>> /\ bld.comps = <<>>
  /\ (doc.built /\ ~doc.nil) =>
       /\ \A id \in NodesOf(doc) :
            /\ id > bld.base
            /\ bld.nodes[id] = doc.nodes[id]
       /\ (prev.built /\ ~prev.nil) => NodesOf(doc) \cap NodesOf(prev) = {}

\* Two Builds on one Builder returned documents with a User component, and
\* the User schema of the earlier one was changed afterwards.
C20_Witness ==
  /\ doc.built /\ ~doc.nil /\ prev.built /\ ~prev.nil
  /\ bld.builds >= 2
  /\ <<"models", "User">> \in DOMAIN doc.comps \cap DOMAIN prev.comps
  /\ bld.nodes[prev.comps[<<"models", "User">>]].desc = "changed"
  /\ bld.nodes[doc.comps[<<"models", "User">>]].desc # "changed"

(***************************************************************************)
(* Claims about the responses of a descriptor.                             *)
(***************************************************************************)
\* Response new is response old with at most a missing model type and a
\* missing content type filled in.
OnlyFilledIn(old, new) ==
  /\ new.Description = old.Description
  /\ new.ExplicitModelType = old.ExplicitModelType
  /\ new.Headers = old.Headers
  /\ new.ModelType # old.ModelType => old.ModelType = ""
  /\ new.ContentType # old.ContentType
       => old.ContentType = "" /\ new.ContentType = "application/json"

\* C21: a call on a descriptor removes no response; the response of a
\* status changes only in a RegisterResponse for that status, or, in
\* EnsureResponse and the options built on it for that status, by filling
\* in a missing model type and a missing content type, with description,
\* explicit model and headers as they were.
C21_ResponseReplacedOnlyByRegister ==
  [][\A st \in DOMAIN refs[1].Responses :
       /\ st \in DOMAIN refs'[1].Responses
       /\ \/ refs'[1].Responses[st] = refs[1].Responses[st]
          \/ lastCall'.typ = "RegisterResponse" /\ lastCall'.ref = st
          \/ /\ lastCall'.ref = st
             /\ OnlyFilledIn(refs[1].Responses[st], refs'[1].Responses[st])]_vars

\* WithErrorResponse(400, "error") was called on a descriptor whose 400
\* response had a header, no description and no model type: the response
\* has the header and the model type, and the description of the call was
\* not applied.
C21_Witness ==
  /\ lastCall.typ = "WithErrorResponse" /\ lastCall.ref = StatusBadRequest
  /\ StatusBadRequest \in DOMAIN refs[1].Responses
  /\ refs[1].Responses[StatusBadRequest].Description = ""
  /\ refs[1].Responses[StatusBadRequest].ModelType = "ErrorResponse"
  /\ Len(refs[1].Responses[StatusBadRequest].Headers) = 1
\* The fields of a descriptor that RegisterRoute is to leave alone.
SameButDefaults(old, new) ==
  [new EXCEPT !.SuccessStatus = 0, !.OperationID = <<>>]
    = [old EXCEPT !.SuccessStatus = 0, !.OperationID = <<>>]

Stored(rs, id) == \E i \in 1..Len(rs) : rs[i] = id

\* C22: the descriptor that RegisterRoute stores has the success status it
\* was given, or 201 for POST, 204 for DELETE and 200 for any other method
\* when that was zero; it has the operation id it was given, or the id
\* derived from method and path when that was empty; its other fields are
\* as they were.
C22_RegisterRouteFillsUnset ==
  [][\A id \in 1..Len(refs) :
       (~Stored(routes, id) /\ Stored(routes', id)) =>
         /\ refs'[id].SuccessStatus =
              (IF refs[id].SuccessStatus = 0
               THEN DefaultSuccessStatus(refs[id].Method)
               ELSE refs[id].SuccessStatus)
         /\ refs'[id].OperationID =
              (IF refs[id].OperationID = <<>>
               THEN defaultOperationID(refs[id].Method, refs[id].Path)
               ELSE refs[id].OperationID)
         /\ SameButDefaults(refs[id], refs'[id])]_vars
\* C23: no step of Snapshot or Build changes a field of a stored descriptor,
\* and a Build from the same stored pointers as the Build before sees the
\* descriptors that the Build before saw.
C23_StoredDescriptorsUnchanged ==
  [][/\ \A id \in 1..Len(refs) : Stored(routes, id) => refs'[id] = refs[id]
     /\ (doc' # doc /\ doc.built /\ snap'.out = snap.out)
          => snap'.vals = snap.vals]_vars

\* Two Builds in a row: the stored descriptor of POST /:a has its parameters
\* in the order of registration, query y before path x, and its own path,
\* and the operation at /{a} of the second document has x before y.
C23_Witness ==
  /\ prev.built /\ doc.built /\ ~doc.nil
  /\ \E id \in 1..Len(refs) :
       /\ Stored(routes, id)
       /\ refs[id] = [RouteColonUser EXCEPT !.SuccessStatus = StatusCreated]
  /\ normalizePath(PathColon) \in DOMAIN doc.paths
  /\ MethodPost \in DOMAIN doc.paths[normalizePath(PathColon)]
  /\ doc.paths[normalizePath(PathColon)][MethodPost].Parameters
       = BuildParameters(<<ParamX, ParamY>>)
\* The operations of a document: its pairs of path and method.
OperationsOf(d) ==
  UNION {{<<path, m>> : m \in DOMAIN d.paths[path]} : path \in DOMAIN d.paths}

\* The operation of the document d is the one built from the descriptor ref.
OperationFrom(d, ref) ==
  /\ normalizePath(ref.Path) \in DOMAIN d.paths
  /\ ToUpper(ref.Method) \in DOMAIN d.paths[normalizePath(ref.Path)]
  /\ \E op \in {d.paths[normalizePath(ref.Path)][ToUpper(ref.Method)]} :
       /\ op.OperationID = ref.OperationID
       /\ op.Summary = ref.Summary
       /\ op.Tags = ref.Tags
       /\ op.Parameters = BuildParameters(ref.Parameters)

\* C24: the document of a successful Build has as many operations as the
\* Build was passed descriptors, and each descriptor's operation is at its
\* normalized path and method.
C24_EveryDescriptorHasItsOperation ==
  (doc.built /\ ~doc.nil /\ snap.taken) =>
    /\ Cardinality(OperationsOf(doc)) = Len(snap.vals)
    /\ \A i \in 1..Len(snap.vals) : OperationFrom(doc, snap.vals[i])
(***************************************************************************)
(* Claims about the schemas of struct fields.                              *)
(***************************************************************************)
\* C25: the description tag of a field is written to the schema of that
\* field only: the cached schema of a struct type, named or anonymous,
\* which every field and operation of that type shares, has no description
\* (none of the struct types here has one of its own).
C25_FieldTagLeavesSharedSchema ==
  \A t \in DOMAIN bld.cache : bld.nodes[bld.cache[t]].desc = ""
\* C26: two distinct named struct types that a Build has met have different
\* component names, and the component table holds, under the name of each,
\* the schema of that type.
C26_ComponentNamesDistinct ==
  \A t \in DOMAIN bld.cache : componentName(t) # <<>> =>
    /\ componentName(t) \in DOMAIN bld.comps
    /\ bld.comps[componentName(t)] = bld.cache[t]
    /\ \A u \in DOMAIN bld.cache : u # t => componentName(u) # componentName(t)
(***************************************************************************)
(* Claims about the configuration of a Builder.                            *)
(***************************************************************************)
\* C27: no Build changes what the fields Info, Servers, SecuritySchemes,
\* GlobalSecurity and Tags of its Builder say, whatever the spec-build
\* observers add to the document.
C27_BuildKeepsConfiguration ==
  [][Configuration(bld') = Configuration(bld)]_vars
(***************************************************************************)
(* Claims about the parameters and the paths of the document.              *)
(***************************************************************************)
\* The parameter of an operation that stands for the descriptor's p.
IsParameterOf(q, p) ==
  /\ q.Name = p.Name /\ q.In = p.In /\ q.Required = p.Required
  /\ q.Type = (IF p.SchemaType = "" THEN "string" ELSE p.SchemaType)

\* -1, 0, 1: the order of two parameters by location, then by name.
KeyCompare(p, q) ==
  IF StrCompare(p.In, q.In) # 0 THEN StrCompare(p.In, q.In)
  ELSE StrCompare(p.Name, q.Name)

\* out lists the parameters of in, each once, ascending by location and
\* name, those of equal location and name in the order they have in in.
SortedStably(out, in) ==
  /\ Len(out) = Len(in)
  /\ \E f \in [1..Len(in) -> 1..Len(in)] :
       /\ \A k, l \in 1..Len(in) : k # l => f[k] # f[l]
       /\ \A k \in 1..Len(in) : IsParameterOf(out[k], in[f[k]])
       /\ \A k, l \in 1..Len(in) : k < l =>
            \/ KeyCompare(in[f[k]], in[f[l]]) < 0
            \/ KeyCompare(in[f[k]], in[f[l]]) = 0 /\ f[k] < f[l]

\* C28: the parameters of every operation of a built document are the
\* parameters of its descriptor, ascending by location and then by name,
\* equal ones in the order of registration, and a parameter without a type
\* hint has the schema type string.
C28_ParametersSorted ==
  (doc.built /\ ~doc.nil /\ snap.taken) =>
    \A i \in 1..Len(snap.vals) :
      /\ OperationsOf(doc) = {<<normalizePath(snap.vals[i].Path), ToUpper(snap.vals[i].Method)>>}
      /\ SortedStably(doc.paths[normalizePath(snap.vals[i].Path)]
                                [ToUpper(snap.vals[i].Method)].Parameters,
                      snap.vals[i].Parameters)

\* The descriptor had y in query with type integer, y in query without a
\* type, z in header: the operation has z, then the first y, then the
\* second y with type string.
C28_Witness ==
  /\ doc.built /\ ~doc.nil /\ snap.taken /\ Len(snap.vals) = 1
  /\ snap.vals[1].Parameters = <<ParamY, ParamYRequired, ParamZ>>
  /\ doc.paths[PathA][MethodGet].Parameters
       = <<[Name |-> <<122>>, In |-> InHeader, Required |-> FALSE, Type |-> "string"],
           [Name |-> <<121>>, In |-> InQuery, Required |-> FALSE, Type |-> "integer"],
           [Name |-> <<121>>, In |-> InQuery, Required |-> TRUE, Type |-> "string"]>>
\* The strings of s ascend.
Ascending(s) == \A i, j \in 1..Len(s) : i < j => StrCompare(s[i], s[j]) < 0

StepOf(p, part) ==
  /\ lastCall'.typ = part /\ lastCall'.ref = p
  /\ hnd'.now = hnd.now /\ refs' = refs
  /\ <<pc[p], loc[p], lastCall>> # <<pc'[p], loc'[p], lastCall'>>

\* The last successful build of the Handler is less than CacheTTL old.
ServedRecently ==
  /\ hnd.cfg.CacheTTL > 0
  /\ hnd.served.at # ZeroTime
  /\ hnd.now - hnd.served.at < hnd.cfg.CacheTTL

\* C30: a request that arrives less than CacheTTL, which is not zero, after
\* the last successful build returns the payload and the content type of
\* that build, and builds nothing; any other request goes on to a build,
\* which snapshots the registry as it is then, builds all of its
\* descriptors, and returns what that build encoded.
C30_CacheWithinTTL ==
  [][\A p \in Procs :
       /\ (pc[p] \in {"idle", "done"} /\ StepOf(p, "getSpec")) =>
            IF ServedRecently
            THEN /\ pc'[p] = "done" /\ loc'[p].returned /\ loc'[p].err = ""
                 /\ loc'[p].payload = hnd.served.payload
                 /\ loc'[p].ctype = hnd.served.ctype
                 /\ doc' = doc /\ snap' = snap
            ELSE pc'[p] = "build" /\ ~loc'[p].returned
       /\ (pc[p] = "build" /\ StepOf(p, "build")) =>
            /\ snap'.taken /\ Len(snap'.out) = Len(routes)
            /\ \A i \in 1..Len(routes) : \E k \in 1..Len(routes) : snap'.out[k] = routes[i]
            /\ pc'[p] = "store" =>
                 /\ doc'.built /\ ~doc'.nil
                 /\ \A i \in 1..Len(routes) : OperationFrom(doc', refs[routes[i]])
                 /\ loc'[p].data[2] = doc'.paths
       /\ (pc[p] = "store" /\ StepOf(p, "store")) =>
            /\ loc'[p].returned /\ loc'[p].err = ""
            /\ loc'[p].payload = loc[p].data /\ loc'[p].ctype = loc[p].ctype]_vars

\* A request was served from the cache, an earlier time's build, although
\* the registry has a path by now that the payload does not have.
C30_Witness ==
  /\ hnd.made /\ hnd.cfg.CacheTTL > 0 /\ hnd.now > hnd.served.at
  /\ \E p \in Procs :
       /\ lastCall.typ = "getSpec" /\ lastCall.ref = p
       /\ pc[p] = "done" /\ loc[p].returned /\ loc[p].err = ""
       /\ loc[p].payload = hnd.served.payload
       /\ hnd.served.payload # <<>>
       /\ \E i \in 1..Len(routes) :
            normalizePath(refs[routes[i]].Path) \notin DOMAIN loc[p].payload[2]
====
